---- MODULE Spec2Model ----
(***************************************************************************)
(* Model of the normalisation and invariant-enforcement core of            *)
(* mcp-azure-arch: src/lib/normalize.ts (normalizeModel, autoWireEdges,    *)
(* ensureIdFactory, normType) and src/lib/invariants.ts                    *)
(* (enforceAzureInvariants), together with the variant of normalizeModel   *)
(* with disaster-recovery cloning and Traffic Manager wiring that the      *)
(* repository also keeps (src/unnamed/part_001).                           *)
(*                                                                         *)
(* Strings of the program (ids, type names, labels, zone names) are        *)
(* sequences of one-character strings, so that trimming, sanitising,       *)
(* lower-casing, concatenation and the regular-expression tests are        *)
(* computed the way the code computes them.  An absent (undefined) string  *)
(* is the empty sequence: every place of the code that reads one treats    *)
(* undefined and "" alike.                                                 *)
(***************************************************************************)
EXTENDS Integers, Sequences, FiniteSets, TLC

VARIABLES
  pc,    \* the stage of normalizeModel to run next, or how the call ended
  m,     \* the model object normalizeModel mutates
  opts,  \* the options of the call
  auto,  \* the counter of the call's id sanitizer
  res,   \* the results of the calls of enforceAzureInvariants, oldest first
  in0,   \* the model as it was passed to the call
  pass,  \* 1, or 2 when the call normalises the output of a first call
  m1,    \* the model the first call returned
  runs,  \* calls started so far
  outs,  \* [input, opts, output] of every earlier call that returned
  tool   \* the server tool that makes the call, its flags and what it rendered

vars == <<pc, m, opts, auto, res, in0, pass, m1, runs, outs, tool>>

\* const x = v; F(x): v is computed once, as a const declaration computes it
With(v, F(_)) == CHOOSE r \in {F(x) : x \in {v}} : TRUE

----------------------------------------------------------------------------
(* Characters and strings                                                  *)

LowerLetters ==
  {"a","b","c","d","e","f","g","h","i","j","k","l","m",
   "n","o","p","q","r","s","t","u","v","w","x","y","z"}

UpperLetters ==
  {"A","B","C","D","E","F","G","H","I","J","K","L","M",
   "N","O","P","Q","R","S","T","U","V","W","X","Y","Z"}

DigitChars == <<"0","1","2","3","4","5","6","7","8","9">>

\* \w of a JavaScript regular expression: [A-Za-z0-9_]
WordChars ==
  LowerLetters \cup UpperLetters \cup {DigitChars[i] : i \in 1..10} \cup {"_"}

\* \s of a JavaScript regular expression (the members the model's inputs use)
SpaceChars == {" ", "\t", "\n"}

UpperToLower ==
  [c \in UpperLetters |->
     CASE c = "A" -> "a" [] c = "B" -> "b" [] c = "C" -> "c" [] c = "D" -> "d"
       [] c = "E" -> "e" [] c = "F" -> "f" [] c = "G" -> "g" [] c = "H" -> "h"
       [] c = "I" -> "i" [] c = "J" -> "j" [] c = "K" -> "k" [] c = "L" -> "l"
       [] c = "M" -> "m" [] c = "N" -> "n" [] c = "O" -> "o" [] c = "P" -> "p"
       [] c = "Q" -> "q" [] c = "R" -> "r" [] c = "S" -> "s" [] c = "T" -> "t"
       [] c = "U" -> "u" [] c = "V" -> "v" [] c = "W" -> "w" [] c = "X" -> "x"
       [] c = "Y" -> "y" [] c = "Z" -> "z"]

\* String.prototype.toLowerCase
toLowerCase(s) ==
  [i \in 1..Len(s) |-> IF s[i] \in UpperLetters THEN UpperToLower[s[i]] ELSE s[i]]

RECURSIVE trimStart(_)
trimStart(s) ==
  IF s # <<>> /\ Head(s) \in SpaceChars THEN trimStart(Tail(s)) ELSE s

RECURSIVE trimEnd(_)
trimEnd(s) ==
  IF s # <<>> /\ s[Len(s)] \in SpaceChars
    THEN trimEnd(SubSeq(s, 1, Len(s) - 1))
    ELSE s

\* String.prototype.trim
trim(s) == trimEnd(trimStart(s))

\* s.replace(/x/g, y) for a one-character pattern x
replaceChar(s, x, y) == [i \in 1..Len(s) |-> IF s[i] = x THEN y ELSE s[i]]

\* String.prototype.endsWith
endsWith(s, suffix) ==
  /\ Len(suffix) <= Len(s)
  /\ SubSeq(s, Len(s) - Len(suffix) + 1, Len(s)) = suffix

\* Number -> decimal string, as a template literal prints it
RECURSIVE decimal(_)
decimal(n) ==
  IF n < 10 THEN <<DigitChars[n + 1]>>
  ELSE decimal(n \div 10) \o <<DigitChars[(n % 10) + 1]>>

----------------------------------------------------------------------------
(* Regular expressions.  A pattern is a sequence of tokens: a one-character *)
(* string matches itself, "\\s*" matches any run of white space, ".?"      *)
(* matches at most one character other than a line break.  An alternation  *)
(* (a|b) is a set of patterns.                                             *)

WsStar == "\\s*"
AnyOpt == ".?"

RECURSIVE matchFrom(_, _, _)
matchFrom(s, i, pat) ==
  IF pat = <<>> THEN TRUE
  ELSE IF Head(pat) = WsStar THEN
         \/ matchFrom(s, i, Tail(pat))
         \/ (i <= Len(s) /\ s[i] \in SpaceChars /\ matchFrom(s, i + 1, pat))
  ELSE IF Head(pat) = AnyOpt THEN
         \/ matchFrom(s, i, Tail(pat))
         \/ (i <= Len(s) /\ s[i] # "\n" /\ matchFrom(s, i + 1, Tail(pat)))
  ELSE i <= Len(s) /\ s[i] = Head(pat) /\ matchFrom(s, i + 1, Tail(pat))

\* RegExp.prototype.test for an unanchored pattern
test(pat, s) == \E i \in 1..(Len(s) + 1) : matchFrom(s, i, pat)

\* test for an alternation
testAny(pats, s) == \E p \in pats : test(p, s)

\* String.prototype.includes
includes(s, sub) == test(sub, s)

----------------------------------------------------------------------------
(* Literals of the program                                                 *)

GatewaySubnet == <<"G","a","t","e","w","a","y","S","u","b","n","e","t">>
AzureFirewallSubnet == <<"A","z","u","r","e","F","i","r","e","w","a","l","l","S","u","b","n","e","t">>
AzureBastionSubnet == <<"A","z","u","r","e","B","a","s","t","i","o","n","S","u","b","n","e","t">>
AppGatewaySubnet == <<"A","p","p","G","a","t","e","w","a","y","S","u","b","n","e","t">>

Type ==
  [AppGateway |-> <<"A","p","p","G","a","t","e","w","a","y">>,
   AzureFirewall |-> <<"A","z","u","r","e","F","i","r","e","w","a","l","l">>,
   VpnGateway |-> <<"V","p","n","G","a","t","e","w","a","y">>,
   ExpressRouteGateway |-> <<"E","x","p","r","e","s","s","R","o","u","t","e","G","a","t","e","w","a","y">>,
   Bastion |-> <<"B","a","s","t","i","o","n">>,
   AppService |-> <<"A","p","p","S","e","r","v","i","c","e">>,
   SqlDb |-> <<"S","q","l","D","b">>,
   CosmosDb |-> <<"C","o","s","m","o","s","D","b">>,
   Storage |-> <<"S","t","o","r","a","g","e">>,
   KeyVault |-> <<"K","e","y","V","a","u","l","t">>,
   TrafficManager |-> <<"T","r","a","f","f","i","c","M","a","n","a","g","e","r">>,
   NetworkSecurityGroup |-> <<"N","e","t","w","o","r","k","S","e","c","u","r","i","t","y","G","r","o","u","p">>,
   RouteTable |-> <<"R","o","u","t","e","T","a","b","l","e">>,
   PrivateEndpoint |-> <<"P","r","i","v","a","t","e","E","n","d","p","o","i","n","t">>,
   PrivateDnsZone |-> <<"P","r","i","v","a","t","e","D","n","s","Z","o","n","e">>,
   PublicIP |-> <<"P","u","b","l","i","c","I","P">>]

Zone ==
  [Sql |-> <<"p","r","i","v","a","t","e","l","i","n","k",".","d","a","t","a","b","a","s","e",".","w","i","n","d","o","w","s",".","n","e","t">>,
   Blob |-> <<"p","r","i","v","a","t","e","l","i","n","k",".","b","l","o","b",".","c","o","r","e",".","w","i","n","d","o","w","s",".","n","e","t">>,
   Vault |-> <<"p","r","i","v","a","t","e","l","i","n","k",".","v","a","u","l","t","c","o","r","e",".","a","z","u","r","e",".","n","e","t">>]

Id ==
  [agw |-> <<"a","g","w">>,
   vpngw |-> <<"v","p","n","g","w">>,
   pe_sql |-> <<"p","e","_","s","q","l">>,
   pe_st |-> <<"p","e","_","s","t">>,
   pe_kv |-> <<"p","e","_","k","v">>,
   sn_data |-> <<"s","n","_","d","a","t","a">>,
   sn_app |-> <<"s","n","_","a","p","p">>,
   onprem |-> <<"o","n","p","r","e","m">>,
   hub |-> <<"h","u","b">>,
   pip_agw |-> <<"p","i","p","-","a","g","w">>,
   tm |-> <<"t","m">>,
   sn |-> <<"s","n">>]

\* "U+2192" stands for the one character RIGHTWARDS ARROW of the labels
Arrow == "U+2192"
Lbl ==
  [AppGatewayWaf |-> <<"A","p","p"," ","G","a","t","e","w","a","y"," ","(","W","A","F","_","v","2",")">>,
   VpnGateway |-> <<"V","P","N"," ","G","a","t","e","w","a","y">>,
   PipAgw |-> <<"P","I","P"," ","(","A","p","p","G","W",")">>,
   Hub |-> <<"H","u","b">>,
   PE |-> <<"P","E"," ",Arrow," ">>,
   RT |-> <<"R","T"," ">>,
   ToFW |-> <<" ",Arrow," ","F","W">>,
   HubVNet |-> <<"H","u","b"," ","V","N","e","t">>,
   Spoke |-> <<"S","p","o","k","e">>,
   TrafficManager |-> <<"T","r","a","f","f","i","c"," ","M","a","n","a","g","e","r">>]

\* CIDR blocks are <<a, b, c, d, prefix length>>; an absent CIDR is <<>>
Cidr ==
  [HubDefault |-> <<10, 0, 0, 0, 16>>,
   GatewaySubnet |-> <<10, 0, 0, 32, 27>>,
   FirewallSubnet |-> <<10, 0, 1, 0, 26>>,
   BastionSubnet |-> <<10, 0, 1, 64, 26>>,
   AppGatewaySubnet |-> <<10, 1, 3, 0, 24>>]

NextHopPlaceholder == <<10, 0, 1, 4>>
PrefixDefaultRoute == <<0, 0, 0, 0, 0>>

----------------------------------------------------------------------------
(* 4.1 Identifier sanitizer                                                *)

\* const idSafe = (s) => (s ?? "").trim().replace(/[^\w]/g, "_")
idSafe(s) ==
  LET t == trim(s)
  IN  [i \in 1..Len(t) |-> IF t[i] \in WordChars THEN t[i] ELSE "_"]

\* a counter kept at module level, which every sanitizer would continue
ensureIdFactory_shared(prev) == prev

\* ensureIdFactory(): the counter a new sanitizer starts from; prev is the value
\* the previous sanitizer's counter was left at
ensureIdFactory(prev) == 0

\* a sanitizer whose counter stays where it is
ensureId_noIncrement(s, n) ==
  With(idSafe(s), LAMBDA z :
    IF z # <<>> /\ z # <<"_">>
      THEN [id |-> z, auto |-> n]
      ELSE [id |-> <<"n">> \o decimal(n), auto |-> n])

\* the closure ensureIdFactory returns, with its counter made explicit:
\* the id, and the counter after the call
ensureId(s, n) ==
  With(idSafe(s), LAMBDA z :
    IF z # <<>> /\ z # <<"_">>
      THEN [id |-> z, auto |-> n]
      ELSE [id |-> <<"n">> \o decimal(n), auto |-> n + 1])

----------------------------------------------------------------------------
(* 4.2 Resource type normalizer                                            *)

Pat ==
  [app |-> <<"a","p","p">>,
   gateway |-> <<"g","a","t","e","w","a","y">>,
   waf |-> <<"w","a","f">>,
   azure |-> <<"a","z","u","r","e">>,
   firewall |-> <<"f","i","r","e","w","a","l","l">>,
   vpn |-> <<"v","p","n">>,
   express |-> <<"e","x","p","r","e","s","s">>,
   route |-> <<"r","o","u","t","e">>,
   bastion |-> <<"b","a","s","t","i","o","n">>,
   service |-> <<"s","e","r","v","i","c","e">>,
   web |-> <<"w","e","b">>,
   sql |-> <<"s","q","l">>,
   database |-> <<"d","a","t","a","b","a","s","e">>,
   cosmos |-> <<"c","o","s","m","o","s">>,
   storage |-> <<"s","t","o","r","a","g","e">>,
   key |-> <<"k","e","y">>,
   vault |-> <<"v","a","u","l","t">>,
   kv |-> <<"k","v">>,
   traffic |-> <<"t","r","a","f","f","i","c">>,
   manager |-> <<"m","a","n","a","g","e","r">>,
   nsg |-> <<"n","s","g">>,
   private |-> <<"p","r","i","v","a","t","e">>,
   endpoint |-> <<"e","n","d","p","o","i","n","t">>,
   dns |-> <<"d","n","s">>,
   agw |-> <<"a","g","w">>]

normType(t) ==
  With(toLowerCase(t), LAMBDA x :
    IF testAny({Pat.app \o <<WsStar>> \o Pat.gateway, Pat.waf}, x) THEN Type.AppGateway
    ELSE IF testAny({Pat.azure \o <<WsStar>> \o Pat.firewall, Pat.firewall}, x) THEN Type.AzureFirewall
    ELSE IF test(Pat.vpn, x) THEN Type.VpnGateway
    ELSE IF test(Pat.express \o <<AnyOpt>> \o Pat.route, x) THEN Type.ExpressRouteGateway
    ELSE IF test(Pat.bastion, x) THEN Type.Bastion
    ELSE IF testAny({Pat.app \o <<WsStar>> \o Pat.service, Pat.web \o <<WsStar>> \o Pat.app}, x) THEN Type.AppService
    ELSE IF testAny({Pat.sql, Pat.database}, x) THEN Type.SqlDb
    ELSE IF test(Pat.cosmos, x) THEN Type.CosmosDb
    ELSE IF test(Pat.storage, x) THEN Type.Storage
    ELSE IF testAny({Pat.key \o <<AnyOpt>> \o Pat.vault, Pat.kv}, x) THEN Type.KeyVault
    ELSE IF test(Pat.traffic \o <<AnyOpt>> \o Pat.manager, x) THEN Type.TrafficManager
    ELSE IF test(Pat.nsg, x) THEN Type.NetworkSecurityGroup
    ELSE IF test(Pat.route, x) THEN Type.RouteTable
    ELSE IF test(Pat.private \o <<WsStar>> \o Pat.endpoint, x) THEN Type.PrivateEndpoint
    ELSE IF test(Pat.private \o <<WsStar>> \o Pat.dns, x) THEN Type.PrivateDnsZone
    ELSE Type.AppService)

----------------------------------------------------------------------------
(* 3. Data model (src/lib/types.ts).  VNet objects live in m.heap and the   *)
(* views m.vnets, m.hubs, m.spokes and m.hub hold references (indices) to   *)
(* them, 0 being no object: the code's views share the objects, and a       *)
(* subnet pushed through one view is seen through the others.              *)

Subnet(id, cidr, purpose) ==
  [id |-> id, cidr |-> cidr, purpose |-> purpose, nsgId |-> <<>>, routeTableId |-> <<>>]

VNet(id, label, cidr, kind, hasSubnets, subnets) ==
  [id |-> id, label |-> label, cidr |-> cidr, kind |-> kind,
   hasSubnets |-> hasSubnets, subnets |-> subnets]

\* a resource with every attribute absent
Resource ==
  [id |-> <<>>, type |-> <<>>, label |-> <<>>,
   targetResourceType |-> <<>>, targetResourceId |-> <<>>, subnetId |-> <<>>,
   zoneName |-> <<>>, links |-> <<>>, pipId |-> <<>>, routes |-> <<>>,
   sku |-> "", allocation |-> ""]

Peering(from, to) == [fromVnetId |-> from, toVnetId |-> to]

Edge(from, to, kind) == [from |-> from, to |-> to, kind |-> kind]

\* a line of the notes log: prefix, message template, the ids and CIDRs filled in
Note(pfx, tag, ids, cidr) == [pfx |-> pfx, tag |-> tag, ids |-> ids, cidr |-> cidr]

Model ==
  [region |-> "", heap |-> <<>>, vnets |-> <<>>, hubs |-> <<>>, spokes |-> <<>>,
   hasSpokes |-> FALSE, hub |-> 0, peerings |-> <<>>, resources |-> <<>>,
   edges |-> <<>>, notes |-> <<>>]

\* the options of normalizeModel; drRegion and trafficManager are read by the
\* DR variant only
Options ==
  [preferredRegion |-> "", enforceWaf |-> FALSE, enforceVpn |-> FALSE,
   enforceFirewall |-> FALSE, enforceBastion |-> FALSE,
   peSql |-> FALSE, peStorage |-> FALSE, peKv |-> FALSE,
   drRegion |-> "", trafficManager |-> FALSE]

Max(S) == CHOOSE x \in S : \A y \in S : y <= x


\* Map.prototype.get on a map kept as the sequence of its set() calls;
\* <<>> is undefined
mapGet(map, key) ==
  LET hits == {i \in 1..Len(map) : map[i][1] = key}
  IN  IF hits = {} THEN <<>> ELSE map[Max(hits)][2]


SelectRefs(heap, refs, kind) == SelectSeq(refs, LAMBDA r : heap[r].kind = kind)

----------------------------------------------------------------------------
(* 4.3 Topology aggregator (normalize.ts 108-183)                          *)

\* normalize.ts 131-135: (v.subnets || []).forEach(sn => ...); done holds the
\* subnets already visited
RECURSIVE sanitizeSubnets(_, _, _, _)
sanitizeSubnets(subs, n, smap, done) ==
  IF subs = <<>> THEN [subnets |-> done, auto |-> n, map |-> smap]
  ELSE With(With(ensureId(subs[1].id, n), LAMBDA e :
              [subnets |-> Append(done, [subs[1] EXCEPT !.id = e.id]),
               auto |-> e.auto,
               map |-> IF subs[1].id # <<>> /\ subs[1].id # e.id
                         THEN Append(smap, <<subs[1].id, e.id>>) ELSE smap]),
            LAMBDA h : sanitizeSubnets(Tail(subs), h.auto, h.map, h.subnets))

\* normalize.ts 126-136: allVnets.forEach(v => ...)
RECURSIVE sanitizeVnets(_, _, _, _, _)
sanitizeVnets(heap, refs, n, vmap, smap) ==
  IF refs = <<>> THEN [heap |-> heap, auto |-> n, vmap |-> vmap, smap |-> smap]
  ELSE With(With(heap[refs[1]], LAMBDA v :
            With(ensureId(v.id, n), LAMBDA e :
            With(sanitizeSubnets(v.subnets, e.auto, smap, <<>>), LAMBDA ss :
              [heap |-> [heap EXCEPT ![refs[1]] = [v EXCEPT !.id = e.id, !.subnets = ss.subnets]],
               auto |-> ss.auto,
               vmap |-> IF v.id # <<>> /\ v.id # e.id
                          THEN Append(vmap, <<v.id, e.id>>) ELSE vmap,
               smap |-> ss.map]))),
            LAMBDA h : sanitizeVnets(h.heap, Tail(refs), h.auto, h.vmap, h.smap))

\* map.get(x) || ensureId(x)
remapId(map, x, n) ==
  With(mapGet(map, x), LAMBDA hit :
    IF hit # <<>> THEN [id |-> hit, auto |-> n] ELSE ensureId(x, n))

\* normalize.ts 139-145; done holds the peerings already mapped
RECURSIVE remapPeerings(_, _, _, _)
remapPeerings(ps, vmap, n, done) ==
  IF ps = <<>> THEN [peerings |-> done, auto |-> n]
  ELSE With(With(remapId(vmap, ps[1].fromVnetId, n), LAMBDA f :
            With(remapId(vmap, ps[1].toVnetId, f.auto), LAMBDA t :
              [peerings |-> Append(done, [ps[1] EXCEPT !.fromVnetId = f.id, !.toVnetId = t.id]),
               auto |-> t.auto])),
            LAMBDA h : remapPeerings(Tail(ps), vmap, h.auto, h.peerings))

\* normalize.ts 154-157
RECURSIVE remapLinks(_, _, _, _)
remapLinks(links, vmap, n, done) ==
  IF links = <<>> THEN [links |-> done, auto |-> n]
  ELSE With(remapId(vmap, links[1], n), LAMBDA l :
         remapLinks(Tail(links), vmap, l.auto, Append(done, l.id)))

\* normalize.ts 148-159; the type compared is the type as given, before normType
RECURSIVE remapResourceRefs(_, _, _, _, _)
remapResourceRefs(rs, vmap, smap, n, done) ==
  IF rs = <<>> THEN [resources |-> done, auto |-> n]
  ELSE With(With(IF rs[1].subnetId # <<>> THEN remapId(smap, rs[1].subnetId, n)
                                           ELSE [id |-> rs[1].subnetId, auto |-> n], LAMBDA sb :
            With(IF rs[1].type = Type.PrivateDnsZone THEN remapLinks(rs[1].links, vmap, sb.auto, <<>>)
                                                     ELSE [links |-> rs[1].links, auto |-> sb.auto], LAMBDA l :
              [resources |-> Append(done, [rs[1] EXCEPT !.subnetId = sb.id, !.links = l.links]),
               auto |-> l.auto])),
            LAMBDA h : remapResourceRefs(Tail(rs), vmap, smap, h.auto, h.resources))

\* normalize.ts 112-123
allVnetsOf(mm) ==
  IF mm.vnets # <<>> THEN mm.vnets
  ELSE IF mm.hubs # <<>> \/ mm.spokes # <<>> THEN mm.hubs \o mm.spokes
  ELSE IF mm.hub # 0 THEN <<mm.hub>> \o mm.spokes
  ELSE <<>>

\* normalize.ts 170-183: m.hub follows the first hub, or a default hub is made
compatHub(base, sv, spokesArr, n, hadHub) ==
  IF base.hubs # <<>> THEN
    [m |-> [base EXCEPT !.hub = base.hubs[1]], auto |-> n]
  ELSE IF ~hadHub THEN
    With(ensureId(Id.hub, n), LAMBDA e :
      [m |-> [base EXCEPT !.heap = Append(sv.heap,
                              VNet(e.id, Lbl.Hub, Cidr.HubDefault, "hub", TRUE, <<>>)),
                          !.hub = Len(sv.heap) + 1,
                          !.hubs = <<Len(sv.heap) + 1>>,
                          !.vnets = <<Len(sv.heap) + 1>> \o spokesArr],
       auto |-> e.auto])
  ELSE [m |-> base, auto |-> n]

\* normalize.ts 99-183: region, aggregation, id maps, remapping, views
aggregate(mm, o, n) ==
  With(allVnetsOf(mm), LAMBDA allVnets :
  With(sanitizeVnets(mm.heap, allVnets, n, <<>>, <<>>), LAMBDA sv :
  With(remapPeerings(mm.peerings, sv.vmap, sv.auto, <<>>), LAMBDA pe :
  With(remapResourceRefs(mm.resources, sv.vmap, sv.smap, pe.auto, <<>>), LAMBDA rr :
  With(SelectRefs(sv.heap, allVnets, "spoke"), LAMBDA spokesArr :
  With([mm EXCEPT !.region = IF o.preferredRegion # "" THEN o.preferredRegion
                             ELSE IF mm.region # "" THEN mm.region ELSE "japaneast",
                  !.heap = sv.heap,
                  !.peerings = pe.peerings, !.resources = rr.resources,
                  !.vnets = allVnets, !.hubs = SelectRefs(sv.heap, allVnets, "hub"),
                  !.spokes = spokesArr, !.hasSpokes = TRUE], LAMBDA base :
    compatHub(base, sv, spokesArr, rr.auto, mm.hub # 0)))))))

----------------------------------------------------------------------------
(* Resources: ids, canonical types, deduplication, requested additions     *)
(* (normalize.ts 185-256)                                                  *)

\* normalize.ts 187-190; done holds the resources already visited
RECURSIVE normalizeResources(_, _, _)
normalizeResources(rs, n, done) ==
  IF rs = <<>> THEN [resources |-> done, auto |-> n]
  ELSE With(With(ensureId(rs[1].id, n), LAMBDA e :
              [resources |-> Append(done, [rs[1] EXCEPT !.id = e.id, !.type = normType(rs[1].type)]),
               auto |-> e.auto]),
            LAMBDA h : normalizeResources(Tail(rs), h.auto, h.resources))

\* a key made of the type alone
sameKey_typeOnly(a, b) == a.type = b.type

\* normalize.ts 193-199: the key `${r.type}::${r.label || ""}`, first one wins
sameKey(a, b) == a.type = b.type /\ a.label = b.label

dedupe(rs) ==
  LET keep == {i \in 1..Len(rs) : \A j \in 1..(i - 1) : ~sameKey(rs[j], rs[i])}
      RECURSIVE pick(_)
      pick(i) == IF i > Len(rs) THEN <<>>
                 ELSE (IF i \in keep THEN <<rs[i]>> ELSE <<>>) \o pick(i + 1)
  IN  pick(1)

\* normalize.ts 202 / invariants.ts 33
has(rs, t) == \E i \in 1..Len(rs) : rs[i].type = t

\* normalize.ts 203 / invariants.ts 34 / autoWireEdges' idOf: <<>> is undefined
idOf(rs, t) ==
  LET hits == {i \in 1..Len(rs) : rs[i].type = t}
  IN  IF hits = {} THEN <<>> ELSE rs[CHOOSE i \in hits : \A j \in hits : i <= j].id

\* normalize.ts 204-208: r.id ||= ensureId(r.id); m.resources.push(r)
addRes(rs, r, n) ==
  With(IF r.id # <<>> THEN [id |-> r.id, auto |-> n] ELSE ensureId(r.id, n), LAMBDA e :
    [resources |-> Append(rs, [r EXCEPT !.id = e.id]), auto |-> e.auto])

\* normalize.ts 235-246
ensurePE(rs, id, targetType, n) ==
  With(idOf(rs, targetType), LAMBDA targetId :
    IF targetId = <<>> THEN [resources |-> rs, auto |-> n]
    ELSE addRes(rs, [Resource EXCEPT !.type = Type.PrivateEndpoint, !.id = id,
                                     !.label = Lbl.PE \o targetType,
                                     !.targetResourceType = targetType,
                                     !.targetResourceId = targetId,
                                     !.subnetId = Id.sn_data], n))

\* r.type === "PrivateEndpoint" && /pat/i.test(r.targetResourceType)
hasPEFor(rs, pat) ==
  \E i \in 1..Len(rs) :
     rs[i].type = Type.PrivateEndpoint /\ test(pat, toLowerCase(rs[i].targetResourceType))

\* normalize.ts 212-232: the gateways a flag asks for; a is [resources, auto]
ensureGateway(a, flag, type, id, label, sku) ==
  IF flag /\ ~has(a.resources, type)
    THEN addRes(a.resources, [Resource EXCEPT !.type = type, !.id = id,
                                              !.label = label, !.sku = sku], a.auto)
    ELSE a

\* normalize.ts 248-256: one of the three Private Endpoint requests
ensureRequestedPE(a, flag, pat, id, targetType) ==
  IF flag /\ ~hasPEFor(a.resources, pat)
    THEN ensurePE(a.resources, id, targetType, a.auto) ELSE a

\* normalize.ts 212-256
ensureRequested(rs, o, n) ==
  With([resources |-> rs, auto |-> n], LAMBDA r0 :
  With(ensureGateway(r0, o.enforceWaf, Type.AppGateway, Id.agw, Lbl.AppGatewayWaf, ""), LAMBDA a :
  With(ensureGateway(a, o.enforceVpn, Type.VpnGateway, Id.vpngw, Lbl.VpnGateway, "VpnGw2AZ"), LAMBDA b :
  With(ensureRequestedPE(b, o.peSql, Pat.sql, Id.pe_sql, Type.SqlDb), LAMBDA c :
  With(ensureRequestedPE(c, o.peStorage, Pat.storage, Id.pe_st, Type.Storage), LAMBDA d :
    ensureRequestedPE(d, o.peKv, Pat.key, Id.pe_kv, Type.KeyVault))))))

----------------------------------------------------------------------------
(* 4.5 Auto-wiring engine (normalize.ts 34-83)                             *)

\* an add that does not look for the pair among the edges
add_unchecked(edges, from, to, kind) ==
  IF from = <<>> \/ to = <<>> THEN edges ELSE Append(edges, Edge(from, to, kind))

\* normalize.ts 50-55
add(edges, from, to, kind) ==
  IF from = <<>> \/ to = <<>> THEN edges
  ELSE IF \E i \in 1..Len(edges) : edges[i].from = from /\ edges[i].to = to THEN edges
  ELSE Append(edges, Edge(from, to, kind))

\* a choice that always takes the second id
orElse_second(a, b) == b

\* a || b on ids
orElse(a, b) == IF a # <<>> THEN a ELSE b

\* a wiring that ignores the declared target type
wireOfPrivateEndpoint_anyTarget(pe, sql, st, kv) ==
  <<pe.id, orElse(sql, orElse(st, kv)), "l7">>

\* normalize.ts 64-71: the call add(pe.id, targetId, "l7") made for pe
wireOfPrivateEndpoint(pe, sql, st, kv) ==
  With(toLowerCase(pe.targetResourceType), LAMBDA target :
    <<pe.id,
      IF includes(target, Pat.sql) THEN sql
      ELSE IF includes(target, Pat.storage) THEN st
      ELSE IF includes(target, Pat.key) THEN kv
      ELSE <<>>,
      "l7">>)

\* the calls add(from, to, kind) of a list, made in order
RECURSIVE addAll(_, _)
addAll(edges, calls) ==
  IF calls = <<>> THEN edges
  ELSE With(add(edges, calls[1][1], calls[1][2], calls[1][3]), LAMBDA e :
         addAll(e, Tail(calls)))

\* normalize.ts 57-82: the calls of add, in the order the code makes them
wiringCalls(rs) ==
  With([agw |-> idOf(rs, Type.AppGateway), app |-> idOf(rs, Type.AppService),
        sql |-> idOf(rs, Type.SqlDb), st |-> idOf(rs, Type.Storage),
        afw |-> idOf(rs, Type.AzureFirewall), vpn |-> idOf(rs, Type.VpnGateway),
        kv |-> idOf(rs, Type.KeyVault), tm |-> idOf(rs, Type.TrafficManager),
        peList |-> SelectSeq(rs, LAMBDA r : r.type = Type.PrivateEndpoint)], LAMBDA x :
    << <<x.agw, x.app, "l7">>, <<x.app, x.sql, "l7">>,
       <<x.app, x.st, "l7">>, <<x.app, x.kv, "l7">> >>
    \o [i \in 1..Len(x.peList) |-> wireOfPrivateEndpoint(x.peList[i], x.sql, x.st, x.kv)]
    \o (IF x.tm # <<>> THEN << <<x.tm, orElse(x.agw, x.app), "l7">> >> ELSE <<>>)
    \o << <<x.afw, orElse(x.agw, x.app), "l3">> >>
    \o (IF x.vpn # <<>>
          THEN << <<Id.onprem, x.vpn, "l3">> >>
               \o (IF x.afw # <<>> THEN << <<x.vpn, x.afw, "l3">> >> ELSE <<>>)
               \o << <<orElse(x.afw, x.vpn), orElse(x.agw, x.app), "l3">> >>
          ELSE <<>>))

\* normalize.ts 34-83: appends to the edges the model holds
autoWireEdges(mm) ==
  With(wiringCalls(mm.resources), LAMBDA calls :
    [mm EXCEPT !.edges = addAll(mm.edges, calls)])

\* autoWireEdges(m) without the reset of m.edges that precedes it
rewire_keeping(mm) == autoWireEdges(mm)

\* normalize.ts 258-259: m.edges = []; autoWireEdges(m)
rewire(mm) == autoWireEdges([mm EXCEPT !.edges = <<>>])

----------------------------------------------------------------------------
(* 4.4 Invariant enforcer (invariants.ts).  The working value is           *)
(* [m, fixes, warns, threw]: the model being mutated, the two lists built,  *)
(* and whether a TypeError has ended the call (reading .some or .forEach    *)
(* of a subnets list that is undefined).                                   *)

Msg(tag, ids, cidr) == [tag |-> tag, ids |-> ids, cidr |-> cidr]

\* the flags normalizeModel passes (normalize.ts 262-270)
flagsOf(o) ==
  [waf |-> o.enforceWaf, vpn |-> o.enforceVpn, firewall |-> o.enforceFirewall,
   bastion |-> o.enforceBastion, privateEndpointSql |-> o.peSql,
   privateEndpointStorage |-> o.peStorage, privateEndpointKeyVault |-> o.peKv]

hasSubnet(v, name) == \E i \in 1..Len(v.subnets) : v.subnets[i].id = name

\* invariants.ts 27-31
inferPurpose(id) == IF id = AppGatewaySubnet THEN "public" ELSE "infra"

\* the compatibility hub alone
hubsOf_compat(mm) == IF mm.hub # 0 THEN <<mm.hub>> ELSE <<>>

\* invariants.ts 18: (m.hubs && m.hubs.length ? m.hubs : [m.hub]).filter(Boolean)
hubsOf(mm) ==
  IF mm.hubs # <<>> THEN mm.hubs ELSE IF mm.hub # 0 THEN <<mm.hub>> ELSE <<>>

\* invariants.ts 19-26
RECURSIVE ensureSubnetIn(_, _, _, _)
ensureSubnetIn(c, hubs, name, cidr) ==
  IF c.threw \/ hubs = <<>> THEN c
  ELSE With(c.m.heap[Head(hubs)], LAMBDA hb :
         IF ~hb.hasSubnets THEN [c EXCEPT !.threw = TRUE]
         ELSE IF hasSubnet(hb, name) THEN ensureSubnetIn(c, Tail(hubs), name, cidr)
         ELSE With([c EXCEPT !.m.heap[Head(hubs)].subnets =
                                 Append(hb.subnets, Subnet(name, cidr, inferPurpose(name))),
                             !.fixes = Append(c.fixes,
                                 Msg("added subnet {0} in hub {1} ({cidr})", <<name, hb.id>>, <<cidr>>))],
                   LAMBDA d : ensureSubnetIn(d, Tail(hubs), name, cidr)))

ensureSubnet(c, name, cidr) == ensureSubnetIn(c, hubsOf(c.m), name, cidr)

warn(c, tag, ids) == [c EXCEPT !.warns = Append(c.warns, Msg(tag, ids, <<>>))]

\* invariants.ts 38-53: one hub feature
hubFeature(c, flag, name, cidr, type, warning) ==
  IF c.threw \/ ~flag THEN c
  ELSE With(ensureSubnet(c, name, cidr), LAMBDA d :
         IF d.threw \/ has(d.m.resources, type) THEN d ELSE warn(d, warning, <<>>))

\* invariants.ts 58-64
RECURSIVE ensureAppGatewaySubnets(_, _)
ensureAppGatewaySubnets(c, spokes) ==
  IF c.threw \/ spokes = <<>> THEN c
  ELSE With(c.m.heap[Head(spokes)], LAMBDA sp :
         IF ~sp.hasSubnets THEN [c EXCEPT !.threw = TRUE]
         ELSE IF hasSubnet(sp, AppGatewaySubnet) THEN ensureAppGatewaySubnets(c, Tail(spokes))
         ELSE With([c EXCEPT !.m.heap[Head(spokes)].subnets =
                                 Append(sp.subnets, Subnet(AppGatewaySubnet, Cidr.AppGatewaySubnet, "public")),
                             !.fixes = Append(c.fixes,
                                 Msg("added AppGatewaySubnet in spoke {0} (10.1.3.0/24)", <<sp.id>>, <<>>)),
                             !.warns = Append(c.warns,
                                 Msg("AppGatewaySubnet in {0} uses default CIDR (10.1.3.0/24) - review", <<sp.id>>, <<>>))],
                   LAMBDA d : ensureAppGatewaySubnets(d, Tail(spokes))))

\* invariants.ts 56-66
wafFeature(c, flag) ==
  IF c.threw \/ ~flag THEN c
  ELSE With(ensureAppGatewaySubnets(c, c.m.spokes), LAMBDA d :
         IF d.threw \/ has(d.m.resources, Type.AppGateway) THEN d
         ELSE warn(d, "WAF requested but AppGateway missing (auto-added)", <<>>))

\* a zone of any name counts as the zone asked for
hasZone_anyName(rs, z) ==
  \E i \in 1..Len(rs) : rs[i].type = Type.PrivateDnsZone

hasZone(rs, z) ==
  \E i \in 1..Len(rs) : rs[i].type = Type.PrivateDnsZone /\ rs[i].zoneName = z

\* invariants.ts 80-85
RECURSIVE ensureZones(_, _)
ensureZones(c, zones) ==
  IF zones = <<>> THEN c
  ELSE With(Head(zones), LAMBDA z :
         IF hasZone(c.m.resources, z) THEN ensureZones(c, Tail(zones))
         ELSE With([c EXCEPT !.m.resources =
                                 Append(c.m.resources,
                                    [Resource EXCEPT !.type = Type.PrivateDnsZone,
                                                     !.id = <<"p","d","z","-">> \o replaceChar(z, ".", "-"),
                                                     !.label = z, !.zoneName = z]),
                             !.fixes = Append(c.fixes, Msg("added PrivateDnsZone {0}", <<z>>, <<>>))],
                   LAMBDA d : ensureZones(d, Tail(zones))))

needsPDZ(flags) ==
  flags.privateEndpointSql \/ flags.privateEndpointStorage \/ flags.privateEndpointKeyVault

\* invariants.ts 74-78
zonesNeeded(flags) ==
  (IF flags.privateEndpointSql THEN <<Zone.Sql>> ELSE <<>>)
  \o (IF flags.privateEndpointStorage THEN <<Zone.Blob>> ELSE <<>>)
  \o (IF flags.privateEndpointKeyVault THEN <<Zone.Vault>> ELSE <<>>)

\* invariants.ts 69-87
privateDnsFeature(c, flags) ==
  IF c.threw \/ ~needsPDZ(flags) THEN c
  ELSE With(ensureZones(c, zonesNeeded(flags)), LAMBDA d :
         warn(d, "Private Endpoint uses require Private DNS zones and zone links to VNets.", <<>>))

\* invariants.ts 92: `rt-${sp.id}-default`
routeTableIdOf(spId) == <<"r","t","-">> \o spId \o <<"-","d","e","f","a","u","l","t">>

DefaultRoute ==
  [name |-> "defaultToFW", addressPrefix |-> PrefixDefaultRoute,
   nextHopType |-> "VirtualAppliance", nextHopIpAddress |-> NextHopPlaceholder]

\* invariants.ts 101-103
attachRouteTable(subnets, rtId) ==
  [i \in 1..Len(subnets) |->
     IF subnets[i].id = Id.sn_app \/ subnets[i].id = Id.sn_data
       THEN [subnets[i] EXCEPT !.routeTableId = rtId]
       ELSE subnets[i]]

\* invariants.ts 93-100
ensureRouteTable(c, sp, rtId) ==
  IF \E i \in 1..Len(c.m.resources) :
        c.m.resources[i].type = Type.RouteTable /\ c.m.resources[i].id = rtId
    THEN c
    ELSE [c EXCEPT !.m.resources =
                       Append(c.m.resources,
                          [Resource EXCEPT !.type = Type.RouteTable, !.id = rtId,
                                           !.label = Lbl.RT \o sp.id \o Lbl.ToFW,
                                           !.routes = <<DefaultRoute>>]),
                   !.fixes = Append(c.fixes,
                       Msg("added RouteTable for {0} default route to Firewall", <<sp.id>>, <<>>)),
                   !.warns = Append(c.warns,
                       Msg("nextHopIpAddress for {0} is default (10.0.1.4) - review", <<rtId>>, <<>>))]

\* invariants.ts 91-104
RECURSIVE ensureRouteTables(_, _)
ensureRouteTables(c, spokes) ==
  IF c.threw \/ spokes = <<>> THEN c
  ELSE With(c.m.heap[Head(spokes)], LAMBDA sp :
       With(routeTableIdOf(sp.id), LAMBDA rtId :
       With(ensureRouteTable(c, sp, rtId), LAMBDA d :
         IF ~sp.hasSubnets THEN [d EXCEPT !.threw = TRUE]
         ELSE With([d EXCEPT !.m.heap[Head(spokes)].subnets = attachRouteTable(sp.subnets, rtId)],
                   LAMBDA e : ensureRouteTables(e, Tail(spokes))))))

\* invariants.ts 90-105
routeTableFeature(c, flag) ==
  IF c.threw \/ ~flag THEN c ELSE ensureRouteTables(c, c.m.spokes)

\* invariants.ts 108: /agw/i.test(r.label || r.id)
isAgwPublicIP(r) ==
  r.type = Type.PublicIP /\ test(Pat.agw, toLowerCase(IF r.label # <<>> THEN r.label ELSE r.id))

\* invariants.ts 108-111
publicIpFeature(c) ==
  IF c.threw THEN c
  ELSE IF has(c.m.resources, Type.AppGateway)
          /\ ~\E i \in 1..Len(c.m.resources) : isAgwPublicIP(c.m.resources[i])
    THEN [c EXCEPT !.m.resources =
                       Append(c.m.resources,
                          [Resource EXCEPT !.type = Type.PublicIP, !.id = Id.pip_agw,
                                           !.label = Lbl.PipAgw, !.sku = "Standard",
                                           !.allocation = "Static"]),
                   !.fixes = Append(c.fixes, Msg("added PublicIP for App Gateway", <<>>, <<>>))]
    ELSE c

\* invariants.ts 113-115
closingWarning(c, flags) ==
  IF c.threw \/ ~needsPDZ(flags) THEN c
  ELSE warn(c, "Private Endpoint: Private DNS zones and VNet links are required (ja)", <<>>)

\* invariants.ts 6-118
enforceAzureInvariants(mm, flags) ==
  With([m |-> mm, fixes |-> <<>>, warns |-> <<>>, threw |-> FALSE], LAMBDA c0 :
  With(hubFeature(c0, flags.vpn, GatewaySubnet, Cidr.GatewaySubnet, Type.VpnGateway,
                  "VPN requested but VpnGateway missing (auto-added)"), LAMBDA c1 :
  With(hubFeature(c1, flags.firewall, AzureFirewallSubnet, Cidr.FirewallSubnet, Type.AzureFirewall,
                  "Firewall requested but AzureFirewall missing (consider adding PIP and UDR)"), LAMBDA c2 :
  With(hubFeature(c2, flags.bastion, AzureBastionSubnet, Cidr.BastionSubnet, Type.Bastion,
                  "Bastion requested but resource missing"), LAMBDA c3 :
  With(wafFeature(c3, flags.waf), LAMBDA c4 :
  With(privateDnsFeature(c4, flags), LAMBDA c5 :
  With(routeTableFeature(c5, flags.firewall), LAMBDA c6 :
  With(publicIpFeature(c6), LAMBDA c7 :
    closingWarning(c7, flags)))))))))

\* normalize.ts 273-275
appendNotes(notes, r) ==
  notes
  \o [i \in 1..Len(r.fixes) |->
        Note("fix: ", r.fixes[i].tag, r.fixes[i].ids, r.fixes[i].cidr)]
  \o [i \in 1..Len(r.warns) |->
        Note("warn: ", r.warns[i].tag, r.warns[i].ids, r.warns[i].cidr)]

----------------------------------------------------------------------------
(* normalizeModel as one function (normalize.ts 85-277): the model         *)
(* returned, or threw when the call ends in a TypeError                    *)

normalizeModel(mm, o) ==
  With(aggregate(mm, o, ensureIdFactory(0)), LAMBDA a :
  With(normalizeResources(a.m.resources, a.auto, <<>>), LAMBDA r :
  With(ensureRequested(dedupe(r.resources), o, r.auto), LAMBDA e :
  With(rewire([a.m EXCEPT !.resources = e.resources]), LAMBDA w :
  With(enforceAzureInvariants(w, flagsOf(o)), LAMBDA c :
    [m |-> [c.m EXCEPT !.notes = IF c.threw THEN c.m.notes ELSE appendNotes(c.m.notes, c)],
     threw |-> c.threw])))))

----------------------------------------------------------------------------
(* The variant of normalizeModel that the repository also keeps            *)
(* (src/unnamed/part_001): it reads m.hub and m.spokes, clones a second    *)
(* region when drRegion is set and wires a Traffic Manager.  It imports    *)
(* the same enforcer, and the functions the two variants share verbatim    *)
(* are modelled once.                                                      *)

SuffixWest == <<"_","w","e","s","t">>
\* ` ${suffix.replace('_','').toUpperCase()}`
LabelWest == <<" ","W","E","S","T">>

Min(a, b) == IF a <= b THEN a ELSE b

\* part_001 102-107
bumpCidr16(cidr, n) ==
  IF Len(cidr) = 5 /\ cidr[5] = 16
    THEN <<cidr[1], Min(254, cidr[2] + n), 0, 0, 16>>
    ELSE cidr

\* part_001 109-121
cloneSubnets(subnets, suffix) ==
  [i \in 1..Len(subnets) |->
     LET sn == subnets[i]
     IN  [sn EXCEPT !.id = (IF sn.id # <<>> THEN sn.id ELSE Id.sn) \o suffix,
                    !.cidr = IF Len(sn.cidr) = 5 /\ sn.cidr[5] = 24
                               THEN <<sn.cidr[1], Min(254, sn.cidr[2] + 1), sn.cidr[3], 0, 24>>
                               ELSE sn.cidr]]

\* part_001 123-131; the caller has checked that v.cidr is a string
cloneVnet(v, suffix, bump) ==
  [v EXCEPT !.id = v.id \o suffix,
            !.label = (IF v.label # <<>> THEN v.label
                       ELSE IF v.kind = "hub" THEN Lbl.HubVNet ELSE Lbl.Spoke) \o LabelWest,
            !.cidr = bumpCidr16(v.cidr, bump),
            !.hasSubnets = TRUE,
            !.subnets = cloneSubnets(v.subnets, suffix)]

\* idMap[k] of part_001 242-253, kept as the sequence of its assignments
\* part_001 133-141
cloneResource(r, suffix, idMap) ==
  LET hit == mapGet(idMap, r.targetResourceId)
  IN  [r EXCEPT !.id = r.id \o suffix,
                !.label = IF r.label # <<>> THEN r.label \o LabelWest ELSE r.label,
                !.targetResourceId =
                   IF r.type = Type.PrivateEndpoint /\ r.targetResourceId # <<>>
                     THEN (IF hit # <<>> THEN hit ELSE r.targetResourceId)
                     ELSE r.targetResourceId]

\* part_001 245-247
typesToClone ==
  {Type.AppGateway, Type.AzureFirewall, Type.AppService, Type.SqlDb, Type.Storage, Type.KeyVault,
   Type.PrivateEndpoint, Type.NetworkSecurityGroup, Type.RouteTable, Type.PublicIP}

\* part_001 249-255; done holds the clones already made
RECURSIVE cloneResources(_, _, _, _)
cloneResources(rs, suffix, idMap, done) ==
  IF rs = <<>> THEN done
  ELSE IF rs[1].type \notin typesToClone THEN cloneResources(Tail(rs), suffix, idMap, done)
  ELSE With(With(Append(idMap, <<rs[1].id, rs[1].id \o suffix>>), LAMBDA mp :
              [idMap |-> mp, done |-> Append(done, cloneResource(rs[1], suffix, mp))]),
            LAMBDA h : cloneResources(Tail(rs), suffix, h.idMap, h.done))

\* part_001 144-152: region and VNet / subnet ids; m.hub.id throws without a hub
sanitizeHubAndSpokes(mm, o, n) ==
  IF mm.hub = 0 THEN [m |-> mm, auto |-> n, threw |-> TRUE]
  ELSE With(sanitizeVnets(mm.heap, <<mm.hub>> \o mm.spokes, n, <<>>, <<>>), LAMBDA sv :
         [m |-> [mm EXCEPT !.region = IF o.preferredRegion # "" THEN o.preferredRegion
                                      ELSE IF mm.region # "" THEN mm.region ELSE "japaneast",
                           !.heap = sv.heap],
          auto |-> sv.auto, threw |-> FALSE])

\* part_001 236-239: spokeWest = cloneVnet(m.spokes[0], suffix, 2), pushed to m.spokes
pushSpokeWest(mm) ==
  IF mm.spokes = <<>> THEN mm
  ELSE [mm EXCEPT !.heap = Append(mm.heap, cloneVnet(mm.heap[mm.spokes[1]], SuffixWest, 2)),
                  !.spokes = Append(mm.spokes, Len(mm.heap) + 1)]

\* part_001 228-262: the working value is [m, threw]
\* hubWest = cloneVnet(m.hub, suffix, 2) is computed and never stored
cloneForDr(mm, o) ==
  IF o.drRegion = "" THEN [m |-> mm, threw |-> FALSE]
  ELSE IF mm.heap[mm.hub].cidr = <<>> \/ ~mm.hasSpokes THEN [m |-> mm, threw |-> TRUE]
  ELSE IF mm.spokes # <<>> /\ mm.heap[mm.spokes[1]].cidr = <<>> THEN [m |-> mm, threw |-> TRUE]
  ELSE With(pushSpokeWest(mm), LAMBDA w :
       With(cloneResources(mm.resources, SuffixWest, <<>>, <<>>), LAMBDA cloned :
         [m |-> [w EXCEPT !.resources = mm.resources \o cloned,
                          !.notes = mm.notes
                             \o <<Note("", "DR across {region} and {drRegion}.", <<>>, <<>>),
                                  Note("", "(approx) Additional hub in {drRegion} (rendered as extra VNet).", <<>>, <<>>)>>],
          threw |-> FALSE]))

\* part_001 265-267
ensureTrafficManager(rs, o) ==
  IF o.trafficManager /\ ~has(rs, Type.TrafficManager)
    THEN Append(rs, [Resource EXCEPT !.type = Type.TrafficManager, !.id = Id.tm,
                                     !.label = Lbl.TrafficManager])
    ELSE rs

\* part_001 275-276: the first AppGateway whose id ends, or does not end, in _west
agwIn(rs, west) ==
  LET hits == {i \in 1..Len(rs) :
                 rs[i].type = Type.AppGateway /\ (endsWith(rs[i].id, SuffixWest) <=> west)}
  IN  IF hits = {} THEN <<>> ELSE rs[CHOOSE i \in hits : \A j \in hits : i <= j].id

\* part_001 270-283
rewireWithTrafficManager(mm, o) ==
  With(rewire(mm), LAMBDA w :
    IF o.trafficManager
      THEN [w EXCEPT !.edges =
              addAll(w.edges, << <<Id.tm, agwIn(w.resources, FALSE), "l7">>,
                                 <<Id.tm, agwIn(w.resources, TRUE), "l7">> >>)]
      ELSE w)

\* part_001 297-302
appendNotesDr(notes, r, o) ==
  appendNotes(notes, r)
  \o (IF o.drRegion # ""
        THEN <<Note("", "Traffic Manager entry configured for failover (if enabled).", <<>>, <<>>)>>
        ELSE <<>>)

----------------------------------------------------------------------------
(* The rule-based template (templates.ts) that the tools of server.ts build *)
(* from the flags parsePrompt returns.  The SKU, tier, redundancy and      *)
(* instance-count attributes are not read by normalizeModel and are left   *)
(* out of the resources, the App Service SKU excepted.                     *)

\* templates.ts 30-197.  Tpl: the ids and labels written; addPE: 109-111;
\* dnsAdd: 112; templateResources: the pushes of 57-147 in order;
\* templateEdges: 156-178
templateWebPaaS(f) ==
  LET Tpl ==
        [afw |-> <<"a","f","w">>,
         bastion |-> <<"b","a","s","t","i","o","n">>,
         ergw |-> <<"e","r","g","w">>,
         appsvc |-> <<"a","p","p","s","v","c">>,
         sqldb |-> <<"s","q","l","d","b">>,
         st |-> <<"s","t">>,
         kv |-> <<"k","v">>,
         pip_afw |-> <<"p","i","p","-","a","f","w">>,
         pip_bastion |-> <<"p","i","p","-","b","a","s","t","i","o","n">>,
         pe_sql |-> <<"p","e","-","s","q","l">>,
         pe_st |-> <<"p","e","-","s","t">>,
         pe_kv |-> <<"p","e","-","k","v">>,
         rt |-> <<"r","t","-","s","p","o","k","e","-","d","e","f","a","u","l","t">>,
         nsg |-> <<"n","s","g","-","a","p","p">>,
         hub_infra |-> <<"h","u","b","-","i","n","f","r","a">>,
         sn_pub |-> <<"s","n","_","p","u","b">>,
         spoke |-> <<"s","p","o","k","e","-","w","e","b">>,
         pdz |-> <<"p","d","z","-">>,
         L_hub |-> <<"H","u","b"," ","V","N","e","t">>,
         L_spoke |-> <<"S","p","o","k","e","-","W","e","b">>,
         L_pipAfw |-> <<"P","I","P"," ","(","F","i","r","e","w","a","l","l",")">>,
         L_pipBas |-> <<"P","I","P"," ","(","B","a","s","t","i","o","n",")">>,
         L_afw |-> <<"A","z","u","r","e"," ","F","i","r","e","w","a","l","l">>,
         L_bastion |-> <<"A","z","u","r","e"," ","B","a","s","t","i","o","n">>,
         L_ergw |-> <<"E","x","p","r","e","s","s","R","o","u","t","e"," ","G","W">>,
         L_appsvc |-> <<"A","p","p"," ","S","e","r","v","i","c","e">>,
         L_sqldb |-> <<"A","z","u","r","e"," ","S","Q","L"," ","D","B">>,
         L_st |-> <<"S","t","o","r","a","g","e">>,
         L_kv |-> <<"K","e","y"," ","V","a","u","l","t">>,
         L_rt |-> <<"R","T"," ","S","p","o","k","e"," ",Arrow," ","F","W">>,
         L_nsg |-> <<"N","S","G"," ","(","A","p","p",")">>]
      addPE(id, target, targetId) ==
        [Resource EXCEPT !.type = Type.PrivateEndpoint, !.id = id, !.label = Lbl.PE \o target,
                         !.targetResourceType = target, !.targetResourceId = targetId,
                         !.subnetId = Id.sn_data]
      dnsAdd(zoneName) ==
        [Resource EXCEPT !.type = Type.PrivateDnsZone, !.id = Tpl.pdz \o replaceChar(zoneName, ".", "-"),
                         !.label = zoneName, !.zoneName = zoneName]
      templateResources ==
        (IF f.waf THEN <<[Resource EXCEPT !.type = Type.PublicIP, !.id = Id.pip_agw, !.label = Lbl.PipAgw,
                                          !.sku = "Standard", !.allocation = "Static"]>> ELSE <<>>)
        \o (IF f.firewall THEN <<[Resource EXCEPT !.type = Type.PublicIP, !.id = Tpl.pip_afw, !.label = Tpl.L_pipAfw,
                                                  !.sku = "Standard", !.allocation = "Static"]>> ELSE <<>>)
        \o (IF f.bastion THEN <<[Resource EXCEPT !.type = Type.PublicIP, !.id = Tpl.pip_bastion, !.label = Tpl.L_pipBas,
                                                 !.sku = "Standard", !.allocation = "Static"]>> ELSE <<>>)
        \o (IF f.firewall THEN <<[Resource EXCEPT !.type = Type.AzureFirewall, !.id = Tpl.afw, !.label = Tpl.L_afw,
                                                  !.pipId = Tpl.pip_afw]>> ELSE <<>>)
        \o (IF f.bastion THEN <<[Resource EXCEPT !.type = Type.Bastion, !.id = Tpl.bastion, !.label = Tpl.L_bastion,
                                                 !.pipId = Tpl.pip_bastion]>> ELSE <<>>)
        \o (IF f.vpn THEN <<[Resource EXCEPT !.type = Type.VpnGateway, !.id = Id.vpngw, !.label = Lbl.VpnGateway,
                                             !.sku = "VpnGw2AZ"]>> ELSE <<>>)
        \o (IF f.expressRouteReady
              THEN <<[Resource EXCEPT !.type = Type.ExpressRouteGateway, !.id = Tpl.ergw, !.label = Tpl.L_ergw,
                                      !.sku = "ErGw2AZ"]>> ELSE <<>>)
        \o (IF f.waf THEN <<[Resource EXCEPT !.type = Type.AppGateway, !.id = Id.agw, !.label = Lbl.AppGatewayWaf,
                                             !.pipId = Id.pip_agw]>> ELSE <<>>)
        \o <<[Resource EXCEPT !.type = Type.AppService, !.id = Tpl.appsvc, !.label = Tpl.L_appsvc, !.sku = "P1v3"],
             [Resource EXCEPT !.type = Type.SqlDb, !.id = Tpl.sqldb, !.label = Tpl.L_sqldb],
             [Resource EXCEPT !.type = Type.Storage, !.id = Tpl.st, !.label = Tpl.L_st],
             [Resource EXCEPT !.type = Type.KeyVault, !.id = Tpl.kv, !.label = Tpl.L_kv]>>
        \o (IF f.privateEndpointSql THEN <<addPE(Tpl.pe_sql, Type.SqlDb, Tpl.sqldb)>> ELSE <<>>)
        \o (IF f.privateEndpointStorage THEN <<addPE(Tpl.pe_st, Type.Storage, Tpl.st)>> ELSE <<>>)
        \o (IF f.privateEndpointKeyVault THEN <<addPE(Tpl.pe_kv, Type.KeyVault, Tpl.kv)>> ELSE <<>>)
        \o (IF f.privateEndpointSql THEN <<dnsAdd(Zone.Sql)>> ELSE <<>>)
        \o (IF f.privateEndpointStorage THEN <<dnsAdd(Zone.Blob)>> ELSE <<>>)
        \o (IF f.privateEndpointKeyVault THEN <<dnsAdd(Zone.Vault)>> ELSE <<>>)
        \o (IF f.firewall THEN <<[Resource EXCEPT !.type = Type.RouteTable, !.id = Tpl.rt, !.label = Tpl.L_rt,
                                                  !.routes = <<DefaultRoute>>]>> ELSE <<>>)
        \o <<[Resource EXCEPT !.type = Type.NetworkSecurityGroup, !.id = Tpl.nsg, !.label = Tpl.L_nsg]>>
      templateEdges ==
        (IF f.vpn THEN <<Edge(Id.onprem, Id.vpngw, "l3"),
                         Edge(Id.vpngw, IF f.firewall THEN Tpl.afw ELSE IF f.waf THEN Id.agw ELSE Tpl.appsvc, "l3")>>
                  ELSE <<>>)
        \o (IF f.firewall THEN <<Edge(Tpl.afw, IF f.waf THEN Id.agw ELSE Tpl.appsvc, "l3")>> ELSE <<>>)
        \o (IF f.waf THEN <<Edge(Id.agw, Tpl.appsvc, "l7")>> ELSE <<>>)
        \o <<Edge(Tpl.appsvc, Tpl.sqldb, "l7"), Edge(Tpl.appsvc, Tpl.st, "l7"),
             Edge(Tpl.sqldb, Tpl.kv, "l7"), Edge(Tpl.st, Tpl.kv, "l7")>>
  IN
  [Model EXCEPT
     !.region = f.region,
     !.heap =
        <<VNet(Id.hub, Tpl.L_hub, Cidr.HubDefault, "hub", TRUE,
               <<Subnet(Tpl.hub_infra, <<10, 0, 0, 0, 24>>, "infra"),
                 Subnet(GatewaySubnet, Cidr.GatewaySubnet, "gateway"),
                 Subnet(AzureFirewallSubnet, Cidr.FirewallSubnet, "firewall"),
                 Subnet(AzureBastionSubnet, Cidr.BastionSubnet, "bastion")>>),
          VNet(Tpl.spoke, Tpl.L_spoke, <<10, 1, 0, 0, 16>>, "spoke", TRUE,
               <<Subnet(Tpl.sn_pub, <<10, 1, 0, 0, 24>>, "public"),
                 [Subnet(Id.sn_app, <<10, 1, 1, 0, 24>>, "app")
                    EXCEPT !.routeTableId = IF f.firewall THEN Tpl.rt ELSE <<>>,
                           !.nsgId = Tpl.nsg],
                 [Subnet(Id.sn_data, <<10, 1, 2, 0, 24>>, "data")
                    EXCEPT !.routeTableId = IF f.firewall THEN Tpl.rt ELSE <<>>],
                 Subnet(AppGatewaySubnet, Cidr.AppGatewaySubnet, "agw")>>)>>,
     !.hub = 1, !.spokes = <<2>>, !.hasSpokes = TRUE,
     !.peerings = <<Peering(Id.hub, Tpl.spoke), Peering(Tpl.spoke, Id.hub)>>,
     !.edges = templateEdges,
     !.resources = templateResources,
     !.notes =
        <<Note("", "Region: {region}", <<>>, <<>>)>>
        \o (IF f.vpn THEN <<Note("", "S2S VPN (GatewaySubnet), ER later (ja)", <<>>, <<>>)>> ELSE <<>>)
        \o (IF f.firewall THEN <<Note("", "Spoke default route via Firewall (UDR) (ja)", <<>>, <<>>)>> ELSE <<>>)
        \o (IF f.waf THEN <<Note("", "App Gateway is WAF_v2 / dedicated subnet (ja)", <<>>, <<>>)>> ELSE <<>>)
        \o <<Note("", "Private Endpoint needs Private DNS (zone links) (ja)", <<>>, <<>>)>>]

\* server.ts 51-61 and 97-107: the options a tool passes to normalizeModel
optionsOf(f) ==
  [Options EXCEPT !.enforceWaf = f.waf, !.enforceVpn = f.vpn,
                  !.enforceFirewall = f.firewall, !.enforceBastion = f.bastion,
                  !.peSql = f.privateEndpointSql, !.peStorage = f.privateEndpointStorage,
                  !.peKv = f.privateEndpointKeyVault]

----------------------------------------------------------------------------
(* Inputs.  RawModels of the loose shapes of spec section 6: ids that are   *)
(* missing, collide or need sanitising, VNets without a subnets list, free  *)
(* type names, edges and notes supplied from upstream.                     *)

MaxRes == 2

GivenId ==
  [spoke_web_h |-> <<"s","p","o","k","e","-","w","e","b">>,
   spoke_web_u |-> <<"s","p","o","k","e","_","w","e","b">>,
   hub2 |-> <<"h","u","b","2">>,
   app |-> <<"a","p","p">>,
   data |-> <<"d","a","t","a">>,
   a_dash_b |-> <<"a","-","b">>,
   a_under_b |-> <<"a","_","b">>,
   appsvc |-> <<"a","p","p","s","v","c">>,
   sql_dash |-> <<"s","q","l","-","1">>,
   sql_under |-> <<"s","q","l","_","1">>,
   afw |-> <<"a","f","w">>,
   gtm |-> <<"g","t","m">>,
   bogus |-> <<"g","h","o","s","t">>,
   azureSql |-> <<"a","z","u","r","e","S","q","l">>,
   pe1 |-> <<"p","e","1">>,
   sql |-> <<"s","q","l">>]

GivenCidr ==
  [Spoke |-> <<10, 1, 0, 0, 16>>,
   OtherGateway |-> <<10, 0, 0, 0, 27>>,
   App |-> <<10, 1, 1, 0, 24>>,
   Data |-> <<10, 1, 2, 0, 24>>]

\* hub VNets an input may hold
HubObjects ==
  [plain |-> VNet(Id.hub, Lbl.Hub, Cidr.HubDefault, "hub", TRUE, <<>>),
   gateway |-> VNet(GivenId.hub2, <<>>, Cidr.HubDefault, "hub", TRUE,
                    <<Subnet(GatewaySubnet, GivenCidr.OtherGateway, "gateway")>>),
   bare |-> VNet(<<>>, <<>>, <<>>, "hub", FALSE, <<>>),
   untagged |-> VNet(Id.hub, <<>>, Cidr.HubDefault, "", TRUE, <<>>)]

\* spoke VNets an input may hold
SpokeObjects ==
  [template |-> VNet(GivenId.spoke_web_h, <<>>, GivenCidr.Spoke, "spoke", TRUE,
                     <<Subnet(Id.sn_app, GivenCidr.App, "app"), Subnet(Id.sn_data, GivenCidr.Data, "data")>>),
   synth |-> VNet(GivenId.spoke_web_u, <<>>, GivenCidr.Spoke, "spoke", TRUE,
                  <<Subnet(GivenId.app, GivenCidr.App, "app"), Subnet(AppGatewaySubnet, Cidr.AppGatewaySubnet, "agw")>>),
   clash |-> VNet(<<>>, <<>>, GivenCidr.Spoke, "spoke", TRUE,
                  <<Subnet(GivenId.a_dash_b, GivenCidr.App, "app"), Subnet(GivenId.a_under_b, GivenCidr.Data, "data")>>),
   twin |-> VNet(GivenId.app, <<>>, GivenCidr.Spoke, "spoke", TRUE,
                 <<Subnet(AppGatewaySubnet, Cidr.AppGatewaySubnet, "agw"),
                   Subnet(AppGatewaySubnet \o <<" ">>, GivenCidr.App, "app")>>),
   bare |-> VNet(GivenId.data, <<>>, <<>>, "spoke", FALSE, <<>>)]

HubLists ==
  {<<>>, <<HubObjects.plain>>, <<HubObjects.gateway>>, <<HubObjects.bare>>,
   <<HubObjects.untagged>>, <<HubObjects.plain, HubObjects.gateway>>}

SpokeLists ==
  {<<>>, <<SpokeObjects.template>>, <<SpokeObjects.synth>>, <<SpokeObjects.clash>>,
   <<SpokeObjects.twin>>, <<SpokeObjects.bare>>,
   <<SpokeObjects.template, SpokeObjects.synth>>}

\* the three input shapes of normalize.ts 102-105, and the one types.ts 162-184
\* allows besides: the required hub field next to a flat list of the spokes
Shapes == {"vnets", "lists", "legacy", "mixed"}

\* a RawModel holding the hubs hs and the spokes ss in the given shape
layout(shape, hs, ss) ==
  LET heap == hs \o ss
      hrefs == [i \in 1..Len(hs) |-> i]
      srefs == [i \in 1..Len(ss) |-> Len(hs) + i]
  IN  CASE shape = "vnets" ->
             [Model EXCEPT !.heap = heap, !.vnets = hrefs \o srefs]
        [] shape = "lists" ->
             [Model EXCEPT !.heap = heap, !.hubs = hrefs, !.spokes = srefs,
                           !.hasSpokes = TRUE]
        [] shape = "mixed" ->
             [Model EXCEPT !.heap = heap, !.hub = IF hs = <<>> THEN 0 ELSE 1,
                           !.vnets = srefs, !.spokes = srefs, !.hasSpokes = TRUE]
        [] shape = "legacy" ->
             [Model EXCEPT !.heap = heap, !.hub = IF hs = <<>> THEN 0 ELSE 1,
                           !.spokes = (IF hs = <<>> THEN <<>> ELSE Tail(hrefs)) \o srefs,
                           !.hasSpokes = TRUE]

Layouts == {layout(sh, hs, ss) : sh \in Shapes, hs \in HubLists, ss \in SpokeLists}

\* resources an input may hold, as upstream gives them
ResourceCatalog ==
  <<[Resource EXCEPT !.id = GivenId.appsvc, !.type = Type.AppService],
    [Resource EXCEPT !.id = GivenId.sql_dash, !.type = GivenId.azureSql],
    [Resource EXCEPT !.id = GivenId.sql_under, !.type = Type.Storage],
    [Resource EXCEPT !.id = Id.agw, !.type = Type.KeyVault],
    [Resource EXCEPT !.type = Type.PrivateEndpoint, !.targetResourceType = Type.SqlDb,
                     !.targetResourceId = GivenId.sql_dash, !.subnetId = Id.sn_data],
    [Resource EXCEPT !.id = GivenId.afw, !.type = Type.AzureFirewall],
    Resource>>

RECURSIVE SeqsUpTo(_, _)
SeqsUpTo(S, n) ==
  IF n = 0 THEN {<<>>}
  ELSE LET shorter == SeqsUpTo(S, n - 1)
       IN  shorter \cup {Append(q, x) : q \in shorter, x \in S}

ResourceLists ==
  LET idx == SeqsUpTo(1..Len(ResourceCatalog), MaxRes)
  IN  {[i \in 1..Len(q) |-> ResourceCatalog[q[i]]] : q \in idx}

\* edges and notes supplied from upstream
UpstreamEdges == {<<>>, <<Edge(GivenId.bogus, GivenId.appsvc, "l7"), Edge(GivenId.appsvc, GivenId.sql_dash, "l3")>>}

UpstreamNotes == {<<>>, <<Note("", "Region: japaneast", <<>>, <<>>)>>}

TemplatePeerings == <<Peering(Id.hub, GivenId.spoke_web_h), Peering(GivenId.spoke_web_h, <<>>)>>

\* the option sets of the calls
OptionSets ==
  {Options,
   [Options EXCEPT !.enforceWaf = TRUE],
   [Options EXCEPT !.enforceVpn = TRUE],
   [Options EXCEPT !.enforceFirewall = TRUE],
   [Options EXCEPT !.enforceBastion = TRUE, !.preferredRegion = "japanwest"],
   [Options EXCEPT !.peSql = TRUE],
   [Options EXCEPT !.peStorage = TRUE, !.peKv = TRUE],
   [Options EXCEPT !.enforceWaf = TRUE, !.enforceVpn = TRUE],
   [Options EXCEPT !.enforceVpn = TRUE, !.enforceFirewall = TRUE, !.enforceBastion = TRUE],
   [Options EXCEPT !.enforceWaf = TRUE, !.enforceVpn = TRUE, !.enforceFirewall = TRUE,
                   !.enforceBastion = TRUE, !.peSql = TRUE, !.peStorage = TRUE, !.peKv = TRUE]}

\* resource lists as the template and upstream give them: Private Endpoints
\* that declare a target, resources of one type with equal and with different
\* labels, and one resource of each canonical kind of types.ts 137-151
ScenarioLists ==
  LET given(id, type, label) == [Resource EXCEPT !.id = id, !.type = type, !.label = label]
      pe(id, label, target, targetId) ==
        [Resource EXCEPT !.type = Type.PrivateEndpoint, !.id = id, !.label = label,
                         !.targetResourceType = target, !.targetResourceId = targetId,
                         !.subnetId = Id.sn_data]
      sql == given(GivenId.sql, Type.SqlDb, <<>>)
      st == given(GivenId.data, Type.Storage, <<>>)
      kinds == <<Type.PublicIP, Type.NetworkSecurityGroup, Type.AppGateway, Type.AzureFirewall,
                 Type.VpnGateway, Type.ExpressRouteGateway, Type.Bastion, Type.AppService,
                 Type.SqlDb, Type.Storage, Type.KeyVault, Type.PrivateEndpoint,
                 Type.PrivateDnsZone, Type.RouteTable, Type.TrafficManager>>
  IN  {<<sql, st, pe(GivenId.pe1, Lbl.PE \o Type.Storage, Type.Storage, GivenId.data),
         pe(GivenId.gtm, Lbl.PE \o Type.AppService, Type.AppService, GivenId.appsvc),
         given(GivenId.appsvc, Type.AppService, <<>>)>>,
       <<sql, given(GivenId.sql_under, Type.SqlDb, Lbl.Spoke),
         pe(GivenId.pe1, <<>>, Type.SqlDb, GivenId.sql_under)>>,
       <<sql, given(GivenId.sql_under, Type.SqlDb, <<>>),
         pe(GivenId.pe1, <<>>, Type.SqlDb, GivenId.sql_under)>>,
       <<sql, pe(GivenId.pe1, <<>>, GivenId.azureSql, GivenId.sql),
         given(GivenId.hub2, Type.KeyVault, <<>>),
         pe(GivenId.gtm, Lbl.Hub, Type.KeyVault, GivenId.hub2)>>,
       <<given(Id.agw, Type.AppGateway, Lbl.AppGatewayWaf), given(GivenId.app, Type.AppGateway, Lbl.Hub),
         given(GivenId.data, Type.AppGateway, Lbl.AppGatewayWaf),
         given(GivenId.afw, Type.AzureFirewall, <<>>), given(GivenId.appsvc, Type.AppService, <<>>)>>,
       [i \in 1..Len(kinds) |-> given(<<>>, kinds[i], <<>>)]}

\* every layout with a fixed resource list, and every resource list on a fixed layout
RawModels ==
  {[l EXCEPT !.resources = rs, !.peerings = TemplatePeerings]
     : l \in Layouts,
       rs \in {<<>>, <<ResourceCatalog[1], ResourceCatalog[2]>>}}
  \cup
  {[layout("legacy", <<HubObjects.plain>>, <<SpokeObjects.template>>)
      EXCEPT !.resources = rs, !.edges = es, !.notes = ns]
     : rs \in ResourceLists, es \in UpstreamEdges, ns \in UpstreamNotes}
  \cup
  {[layout("legacy", <<HubObjects.plain>>, <<SpokeObjects.template>>) EXCEPT !.resources = rs]
     : rs \in ScenarioLists}
  \cup
  \* peerings, Private DNS zones with VNet links and a Private Endpoint with
  \* a subnetId, referring to ids that the sanitizer rewrites; the zone type
  \* as types.ts writes it and as free text
  {[layout("legacy", <<[HubObjects.plain EXCEPT !.id = h]>>,
                       <<SpokeObjects.template, SpokeObjects.clash>>)
      EXCEPT !.peerings = <<Peering(h, GivenId.spoke_web_h), Peering(GivenId.spoke_web_h, h)>>,
             !.resources =
                <<[Resource EXCEPT !.id = GivenId.data, !.type = t, !.zoneName = Zone.Sql,
                                   !.links = <<GivenId.spoke_web_h, GivenId.sql_dash>>],
                  [Resource EXCEPT !.id = GivenId.pe1, !.type = Type.PrivateEndpoint,
                                   !.targetResourceType = Type.SqlDb,
                                   !.targetResourceId = GivenId.sql, !.subnetId = GivenId.a_dash_b],
                  [Resource EXCEPT !.id = GivenId.sql, !.type = Type.SqlDb]>>]
     : h \in {Id.hub, <<"h","u","b","-","1">>},
       t \in {Type.PrivateDnsZone,
              <<"P","r","i","v","a","t","e"," ","D","N","S"," ","Z","o","n","e">>}}

----------------------------------------------------------------------------
(* normalizeModel as a state machine: one step per stage of normalize.ts   *)

\* normalize.ts 96-183
Aggregate ==
  /\ pc = "aggregate"
  /\ \E a \in {aggregate(m, opts, ensureIdFactory(auto))} :
        m' = a.m /\ auto' = a.auto
  /\ pc' = "resources"
  /\ UNCHANGED <<opts, res, in0, pass, m1, runs, outs, tool>>

\* normalize.ts 186-199
NormalizeResources ==
  /\ pc = "resources"
  /\ \E r \in {normalizeResources(m.resources, auto, <<>>)} :
        m' = [m EXCEPT !.resources = dedupe(r.resources)] /\ auto' = r.auto
  /\ pc' = "ensure"
  /\ UNCHANGED <<opts, res, in0, pass, m1, runs, outs, tool>>

\* normalize.ts 210-256
EnsureRequested ==
  /\ pc = "ensure"
  /\ \E r \in {ensureRequested(m.resources, opts, auto)} :
        m' = [m EXCEPT !.resources = r.resources] /\ auto' = r.auto
  /\ pc' = "wire"
  /\ UNCHANGED <<opts, res, in0, pass, m1, runs, outs, tool>>

\* normalize.ts 257-259
AutoWire ==
  /\ pc = "wire"
  /\ m' = rewire(m)
  /\ pc' = "enforce"
  /\ UNCHANGED <<opts, auto, res, in0, pass, m1, runs, outs, tool>>

\* normalize.ts 261-276: enforce, then append the notes and return
Enforce ==
  /\ pc = "enforce"
  /\ \E r \in {enforceAzureInvariants(m, flagsOf(opts))} :
         /\ res' = <<[fixes |-> r.fixes, warns |-> r.warns]>>
         /\ IF r.threw
              THEN m' = r.m /\ pc' = "threw"
              ELSE m' = [r.m EXCEPT !.notes = appendNotes(r.m.notes, r)] /\ pc' = "done"
  /\ UNCHANGED <<opts, auto, in0, pass, m1, runs, outs, tool>>

\* normalizeModel(M1, O) on the model M1 a first call returned
SecondPass ==
  /\ pc = "done" /\ pass = 1
  /\ m1' = m /\ in0' = m /\ pass' = 2
  /\ pc' = "aggregate"
  /\ UNCHANGED <<m, opts, auto, res, runs, outs, tool>>

\* enforceAzureInvariants(m, f) called again directly on the model a call left
EnforceAgain ==
  /\ pc = "done" /\ pass = 1
  /\ \E r \in {enforceAzureInvariants(m, flagsOf(opts))} :
         /\ res' = Append(res, [fixes |-> r.fixes, warns |-> r.warns])
         /\ m' = r.m
  /\ pc' = "again"
  /\ UNCHANGED <<opts, auto, in0, pass, m1, runs, outs, tool>>

Init ==
  /\ in0 \in RawModels
  /\ m = in0
  /\ opts \in OptionSets
  /\ pc = "aggregate"
  /\ auto = 0
  /\ res = <<>>
  /\ pass = 1
  /\ m1 = Model
  /\ runs = 1
  /\ outs = {}
  /\ tool = [name |-> "", flags |-> <<>>, out |-> ""]

Next ==
  \/ Aggregate
  \/ NormalizeResources
  \/ EnsureRequested
  \/ AutoWire
  \/ Enforce
  \/ SecondPass
  \/ EnforceAgain

Spec == Init /\ [][Next]_vars

----------------------------------------------------------------------------
(* The variant of part_001 as a state machine, on inputs of its own shape  *)
(* (one hub, a spokes list) and with its two further options.              *)

Region_japanwest == "japanwest"

DrResourceCatalog ==
  [agw |-> [Resource EXCEPT !.id = Id.agw, !.type = Type.AppGateway],
   app |-> [Resource EXCEPT !.id = GivenId.appsvc, !.type = Type.AppService],
   sql |-> [Resource EXCEPT !.id = GivenId.sql, !.type = Type.SqlDb],
   pe |-> [Resource EXCEPT !.id = GivenId.pe1, !.type = Type.PrivateEndpoint,
                           !.targetResourceType = Type.SqlDb, !.targetResourceId = GivenId.sql,
                           !.subnetId = Id.sn_data],
   gtm |-> [Resource EXCEPT !.id = GivenId.gtm, !.type = Type.TrafficManager],
   tm |-> [Resource EXCEPT !.id = Id.tm, !.type = Type.TrafficManager]]

DrResourceLists ==
  {<<>>,
   <<DrResourceCatalog.agw, DrResourceCatalog.app>>,
   <<DrResourceCatalog.app>>,
   <<DrResourceCatalog.sql, DrResourceCatalog.pe>>,
   <<DrResourceCatalog.pe, DrResourceCatalog.sql>>,
   <<DrResourceCatalog.gtm, DrResourceCatalog.agw>>,
   <<DrResourceCatalog.tm, DrResourceCatalog.agw>>}

DrHubLists == {<<>>, <<HubObjects.plain>>, <<HubObjects.gateway>>, <<HubObjects.bare>>}

DrSpokeLists ==
  {<<>>, <<SpokeObjects.template>>, <<SpokeObjects.bare>>,
   <<SpokeObjects.template, SpokeObjects.synth>>}

DrOptionSets ==
  {Options,
   [Options EXCEPT !.drRegion = Region_japanwest],
   [Options EXCEPT !.trafficManager = TRUE],
   [Options EXCEPT !.drRegion = Region_japanwest, !.trafficManager = TRUE],
   [Options EXCEPT !.drRegion = Region_japanwest, !.trafficManager = TRUE,
                   !.enforceWaf = TRUE, !.enforceFirewall = TRUE, !.peSql = TRUE],
   [Options EXCEPT !.trafficManager = TRUE, !.enforceWaf = TRUE, !.enforceVpn = TRUE]}

DrModels ==
  {[layout("legacy", hs, ss) EXCEPT !.resources = rs]
     : hs \in DrHubLists, ss \in DrSpokeLists, rs \in DrResourceLists}
  \cup
  {[layout("legacy", <<HubObjects.plain>>, <<>>) EXCEPT !.resources = rs, !.hasSpokes = FALSE]
     : rs \in DrResourceLists}

\* part_001 142-152
DrSanitize ==
  /\ pc = "dr_sanitize"
  /\ \E a \in {sanitizeHubAndSpokes(m, opts, ensureIdFactory(auto))} :
         /\ m' = a.m /\ auto' = a.auto
         /\ pc' = IF a.threw THEN "threw" ELSE "dr_resources"
  /\ UNCHANGED <<opts, res, in0, pass, m1, runs, outs, tool>>

\* part_001 154-225
DrResources ==
  /\ pc = "dr_resources"
  /\ \E r \in {normalizeResources(m.resources, auto, <<>>)} :
       \E e \in {ensureRequested(dedupe(r.resources), opts, r.auto)} :
          m' = [m EXCEPT !.resources = e.resources] /\ auto' = e.auto
  /\ pc' = "dr_clone"
  /\ UNCHANGED <<opts, res, in0, pass, m1, runs, outs, tool>>

\* part_001 227-267
DrClone ==
  /\ pc = "dr_clone"
  /\ \E c \in {cloneForDr(m, opts)} :
         IF c.threw
           THEN m' = c.m /\ pc' = "threw"
           ELSE /\ m' = [c.m EXCEPT !.resources = ensureTrafficManager(c.m.resources, opts)]
                /\ pc' = "dr_wire"
  /\ UNCHANGED <<opts, auto, res, in0, pass, m1, runs, outs, tool>>

\* part_001 269-283
DrWire ==
  /\ pc = "dr_wire"
  /\ m' = rewireWithTrafficManager(m, opts)
  /\ pc' = "dr_enforce"
  /\ UNCHANGED <<opts, auto, res, in0, pass, m1, runs, outs, tool>>

\* part_001 285-303
DrEnforce ==
  /\ pc = "dr_enforce"
  /\ \E r \in {enforceAzureInvariants(m, flagsOf(opts))} :
         /\ res' = <<[fixes |-> r.fixes, warns |-> r.warns]>>
         /\ IF r.threw
              THEN m' = r.m /\ pc' = "threw"
              ELSE m' = [r.m EXCEPT !.notes = appendNotesDr(r.m.notes, r, opts)] /\ pc' = "done"
  /\ UNCHANGED <<opts, auto, in0, pass, m1, runs, outs, tool>>

InitDR ==
  /\ in0 \in DrModels
  /\ m = in0
  /\ opts \in DrOptionSets
  /\ pc = "dr_sanitize"
  /\ auto = 0
  /\ res = <<>>
  /\ pass = 1
  /\ m1 = Model
  /\ runs = 1
  /\ outs = {}
  /\ tool = [name |-> "", flags |-> <<>>, out |-> ""]

NextDR ==
  \/ DrSanitize
  \/ DrResources
  \/ DrClone
  \/ DrWire
  \/ DrEnforce

SpecDR == InitDR /\ [][NextDR]_vars

----------------------------------------------------------------------------
(* Successive calls of normalizeModel in one process: a call is            *)
(* synchronous, so calls follow one another; auto keeps the value the      *)
(* previous call's counter was left at.                                    *)

MaxRuns == 3

RunModels ==
  {[layout("legacy", hs, ss) EXCEPT !.resources = rs]
     : hs \in {<<HubObjects.plain>>, <<>>},
       ss \in {<<SpokeObjects.clash>>},
       rs \in {<<>>, <<Resource, ResourceCatalog[5]>>}}

RunOptionSets == {Options, [Options EXCEPT !.enforceWaf = TRUE, !.peSql = TRUE]}

\* the call returns (or throws) and the next call starts
NextRun ==
  /\ pc \in {"done", "threw"}
  /\ runs < MaxRuns
  /\ outs' = IF pc = "done"
               THEN outs \cup {[input |-> in0, opts |-> opts, output |-> m]}
               ELSE outs
  /\ \E i \in RunModels, o \in RunOptionSets : in0' = i /\ m' = i /\ opts' = o
  /\ pc' = "aggregate"
  /\ runs' = runs + 1
  /\ UNCHANGED <<auto, res, pass, m1, tool>>

InitRuns ==
  /\ in0 \in RunModels
  /\ m = in0
  /\ opts \in RunOptionSets
  /\ pc = "aggregate"
  /\ auto = 0
  /\ res = <<>>
  /\ pass = 1
  /\ m1 = Model
  /\ runs = 1
  /\ outs = {}
  /\ tool = [name |-> "", flags |-> <<>>, out |-> ""]

NextRuns ==
  \/ Aggregate
  \/ NormalizeResources
  \/ EnsureRequested
  \/ AutoWire
  \/ Enforce
  \/ NextRun

SpecRuns == InitRuns /\ [][NextRuns]_vars

----------------------------------------------------------------------------
(* The two tools of server.ts.  A tool parses the prompt into flags; the   *)
(* flags, not the prompt text, are the input here.  emitMermaid reads the  *)
(* model and changes nothing: the state "rendered" holds the model it was  *)
(* given.                                                                  *)

\* parse.ts 47-61: the flags parsePrompt can return, region fixed
FlagSets ==
  [region : {"japaneast"}, vpn : BOOLEAN, waf : BOOLEAN, firewall : BOOLEAN, bastion : BOOLEAN,
   expressRouteReady : BOOLEAN, privateEndpointSql : BOOLEAN,
   privateEndpointStorage : BOOLEAN, privateEndpointKeyVault : BOOLEAN]

\* models synthesizeModelFromPrompt may hand over: ModelSchema.parse (synth.ts
\* 136-166) lets through a hub and a spokes list whose ids are sanitized and
\* whose subnets lists exist, and resources of any form
SynthModels ==
  {[layout("legacy", <<HubObjects.plain>>, ss) EXCEPT !.resources = rs]
     : ss \in {<<>>, <<[SpokeObjects.synth EXCEPT !.subnets[2].purpose = "infra"]>>},
       rs \in {<<>>, <<ResourceCatalog[1], ResourceCatalog[2]>>,
                <<ResourceCatalog[6], ResourceCatalog[1]>>}}

\* server.ts 30-61: the template, handed to normalizeModel
DesignTemplate ==
  /\ pc = "tool" /\ tool.name = "design_azure_architecture"
  /\ \E t \in {templateWebPaaS(tool.flags)} : m' = t /\ in0' = t
  /\ opts' = optionsOf(tool.flags)
  /\ pc' = "aggregate"
  /\ UNCHANGED <<auto, res, pass, m1, runs, outs, tool>>

\* server.ts 91-107: the upstream calls succeeded; their model goes to normalizeModel
SynthesizeModel ==
  /\ pc = "tool" /\ tool.name = "arch_from_prompt_via_docs"
  /\ \E t \in SynthModels : m' = t /\ in0' = t
  /\ opts' = optionsOf(tool.flags)
  /\ pc' = "aggregate"
  /\ UNCHANGED <<auto, res, pass, m1, runs, outs, tool>>

\* server.ts 117-141: searchDocs, synthesizeModelFromPrompt or normalizeModel threw
Fallback ==
  /\ tool.name = "arch_from_prompt_via_docs" /\ pc \in {"tool", "threw"}
  /\ m' = templateWebPaaS(tool.flags)
  /\ tool' = [tool EXCEPT !.out = "fallback"]
  /\ pc' = "rendered"
  /\ UNCHANGED <<opts, auto, res, in0, pass, m1, runs, outs>>

\* server.ts 63-75 and 109-115: emitMermaid(model) on the model normalizeModel returned
Render ==
  /\ tool.name # "" /\ pc = "done"
  /\ tool' = [tool EXCEPT !.out = "normalized"]
  /\ pc' = "rendered"
  /\ UNCHANGED <<m, opts, auto, res, in0, pass, m1, runs, outs>>

InitTools ==
  /\ tool \in [name : {"design_azure_architecture", "arch_from_prompt_via_docs"}, flags : FlagSets, out : {""}]
  /\ pc = "tool"
  /\ m = Model
  /\ in0 = Model
  /\ opts = Options
  /\ auto = 0
  /\ res = <<>>
  /\ pass = 1
  /\ m1 = Model
  /\ runs = 1
  /\ outs = {}

NextTools ==
  \/ DesignTemplate
  \/ SynthesizeModel
  \/ Fallback
  \/ Render
  \/ Aggregate
  \/ NormalizeResources
  \/ EnsureRequested
  \/ AutoWire
  \/ Enforce

SpecTools == InitTools /\ [][NextTools]_vars

----------------------------------------------------------------------------
(* The id sanitizer on its own: one sanitizer made by ensureIdFactory, as  *)
(* one pass of normalizeModel makes it, called on ids drawn from a set;    *)
(* res holds the calls made, each with its argument and the id returned.   *)

MaxCalls == 3

\* normalize.ts 8-11: one call ensureId(s); <<>> is a missing id
EnsureIdCall ==
  /\ pc = "ids" /\ Len(res) < MaxCalls
  /\ \E s \in {<<>>, <<" ">>, <<"_">>, <<"-">>, <<"n","0">>, GivenId.a_dash_b, GivenId.a_under_b,
                <<" ">> \o GivenId.hub2 \o <<" ">>} :
       \E e \in {ensureId(s, auto)} :
         /\ res' = Append(res, [arg |-> s, id |-> e.id])
         /\ auto' = e.auto
  /\ UNCHANGED <<pc, m, opts, in0, pass, m1, runs, outs, tool>>

\* normalize.ts 6-7: const ensureId = ensureIdFactory()
InitIds ==
  /\ pc = "ids"
  /\ auto = ensureIdFactory(0)
  /\ res = <<>>
  /\ m = Model /\ in0 = Model /\ m1 = Model
  /\ opts = Options
  /\ pass = 1 /\ runs = 1 /\ outs = {}
  /\ tool = [name |-> "", flags |-> <<>>, out |-> ""]

SpecIds == InitIds /\ [][EnsureIdCall]_vars

----------------------------------------------------------------------------
(* Views of a model used by the properties                                 *)

Returned == pc = "done"

SeqToSet(q) == {q[i] : i \in 1..Len(q)}

Distinct(q) == \A i, j \in 1..Len(q) : i # j => q[i] # q[j]

ResourceKeys(mm) == {<<mm.resources[i].id, mm.resources[i].type>> : i \in 1..Len(mm.resources)}

ResourceIds(mm) == {mm.resources[i].id : i \in 1..Len(mm.resources)}

SubnetIds(v) == [i \in 1..Len(v.subnets) |-> v.subnets[i].id]

VNetIds(mm) == [i \in 1..Len(mm.vnets) |-> mm.heap[mm.vnets[i]].id]

SubnetSets(mm) ==
  {<<mm.heap[mm.vnets[i]].id, SeqToSet(SubnetIds(mm.heap[mm.vnets[i]]))>> : i \in 1..Len(mm.vnets)}

\* the hub VNets of a model: the hub list and the compatibility hub
HubRefs(mm) == SeqToSet(mm.hubs) \cup (IF mm.hub # 0 THEN {mm.hub} ELSE {})

\* the resources of a list that satisfy P, as positions
Where(rs, P(_)) == {i \in 1..Len(rs) : P(rs[i])}

\* the PrivateDnsZone resources of a list that carry the zone name z
ZonesNamed(rs, z) == Where(rs, LAMBDA r : r.type = Type.PrivateDnsZone /\ r.zoneName = z)

----------------------------------------------------------------------------
(* C1  Idempotence of normalizeModel: a second pass over the returned model *)
(* with the same options leaves the sets of resources (id, type), of        *)
(* subnets per VNet and of edges as they were, and appends no fix: note.    *)
(* Stated as the claim states it; the code violates it.                    *)
C1_SecondPassChangesNothing ==
  (Returned /\ pass = 2) =>
     /\ ResourceKeys(m) = ResourceKeys(m1)
     /\ SubnetSets(m) = SubnetSets(m1)
     /\ SeqToSet(m.edges) = SeqToSet(m1.edges)
     /\ \A i \in (Len(m1.notes) + 1)..Len(m.notes) : m.notes[i].pfx # "fix: "

(* C2  enforceAzureInvariants called a second time directly after a first   *)
(* call returns no fixes and the warnings the first call returned.         *)
(* Stated as the claim states it; the code violates it.                    *)
C2_SecondCallSameWarnings ==
  pc = "again" =>
     /\ res[2].fixes = <<>>
     /\ SeqToSet(res[2].warns) = SeqToSet(res[1].warns)

(* C3  In every model returned, VNet ids are pairwise distinct, subnet ids  *)
(* are pairwise distinct within each VNet and resource ids are pairwise     *)
(* distinct.  Stated as the claim states it; the code violates it.         *)
C3_IdsUnique ==
  Returned =>
     /\ Distinct(VNetIds(m))
     /\ \A i \in 1..Len(m.vnets) : Distinct(SubnetIds(m.heap[m.vnets[i]]))
     /\ Distinct([i \in 1..Len(m.resources) |-> m.resources[i].id])

(* C4  Every edge of the model returned joins two resources of the         *)
(* returned resource list, onprem being the one other endpoint allowed;    *)
(* the Traffic Manager edges added after the wiring pass included.         *)
(* Stated as the claim states it; the code of part_001 violates it.        *)
C4_EdgeEndpointsExist ==
  Returned =>
     \A i \in 1..Len(m.edges) :
        /\ m.edges[i].from \in ResourceIds(m) \cup {Id.onprem}
        /\ m.edges[i].to \in ResourceIds(m) \cup {Id.onprem}

(* C5  normalizeModel returns a model for every RawModel of the loose       *)
(* shapes and every combination of flags: no call ends in an exception.    *)
(* Stated as the claim states it; the code violates it.                    *)
C5_NeverThrows == pc # "threw"

(* C6  A call of normalizeModel returns the model that every earlier call  *)
(* on an equal input with equal options returned, whatever calls came      *)
(* between them: each call starts its counter at 0.                        *)
C6_EqualInputsEqualOutputs ==
  Returned =>
     \A a \in outs : (a.input = in0 /\ a.opts = opts) => a.output = m

\* a call that generated ids returns after an equal call and a different one
C6_Witness ==
  /\ Returned
  /\ auto > 0
  /\ \E a, b \in outs :
        /\ a.input = in0 /\ a.opts = opts
        /\ b.input # in0
        /\ \E i \in 1..Len(b.output.heap) : b.output.heap[i].id = <<"n", "0">>
        /\ \E i \in 1..Len(m.heap) : m.heap[i].id = <<"n", "0">>

(* C7  The edges returned do not depend on the edges supplied: they are the *)
(* edges returned for the same input with its edge list emptied.           *)
C7_EdgesIndependentOfInput ==
  Returned => m.edges = normalizeModel([in0 EXCEPT !.edges = <<>>], opts).m.edges

C7_Witness ==
  /\ Returned
  /\ m.edges # <<>>
  /\ \E i \in 1..Len(in0.edges) : in0.edges[i] \notin SeqToSet(m.edges)

(* C8  If WAF is requested, every spoke VNet of the returned model holds    *)
(* exactly one subnet whose id is AppGatewaySubnet.                        *)
(* Stated as the claim states it; the code violates it.                    *)
C8_ExactlyOneAppGatewaySubnet ==
  (Returned /\ opts.enforceWaf) =>
     \A i \in 1..Len(m.spokes) :
        Cardinality({j \in 1..Len(m.heap[m.spokes[i]].subnets) :
                        m.heap[m.spokes[i]].subnets[j].id = AppGatewaySubnet}) = 1

C10_RouteTableOnAppAndDataSubnets ==
  (Returned /\ opts.enforceFirewall) =>
     \A i \in 1..Len(m.spokes) :
        LET sp == m.heap[m.spokes[i]]
        IN  \E k \in 1..Len(m.resources) :
               /\ m.resources[k].type = Type.RouteTable
               /\ m.resources[k].routes = <<DefaultRoute>>
               /\ \A j \in 1..Len(sp.subnets) :
                     sp.subnets[j].purpose \in {"app", "data"} =>
                        sp.subnets[j].routeTableId = m.resources[k].id

(* C11  A call of the enforcer that returns leaves, for each Private        *)
(* Endpoint target requested, a PrivateDnsZone resource of the zone name   *)
(* of that target: one is added when there was none, and none is added     *)
(* when there was one; if any target is requested, the warnings returned   *)
(* hold the warning about zone links to VNets.                             *)
C11_ZonesEnsured ==
  [][(pc' \in {"done", "again"} /\ pc \in {"enforce", "done"}) =>
       /\ \A z \in SeqToSet(zonesNeeded(flagsOf(opts))) :
             Cardinality(ZonesNamed(m'.resources, z)) =
                Max({1, Cardinality(ZonesNamed(m.resources, z))})
       /\ needsPDZ(flagsOf(opts)) =>
             \E i \in 1..Len(res'[Len(res')].warns) :
                res'[Len(res')].warns[i].tag =
                   "Private Endpoint uses require Private DNS zones and zone links to VNets."]_vars

\* a second pass returns with the two zones the first pass added, once each
C11_Witness ==
  /\ Returned /\ pass = 2
  /\ opts.peStorage /\ opts.peKv
  /\ Cardinality(ZonesNamed(m1.resources, Zone.Blob)) = 1
  /\ Cardinality(ZonesNamed(m.resources, Zone.Blob)) = 1
  /\ Cardinality(ZonesNamed(m.resources, Zone.Vault)) = 1

(* C12  If a Private Endpoint for SQL is requested and no input resource   *)
(* has the canonical type SqlDb, the model returned holds no               *)
(* PrivateEndpoint for SQL and no PrivateDnsZone of the SQL zone name that *)
(* the input did not hold; if no target is requested, it holds no          *)
(* PrivateEndpoint and no PrivateDnsZone that the input did not hold and   *)
(* its notes hold neither Private Endpoint warning.  Stated as the claim   *)
(* states it; the code violates it.                                        *)
C12_NoScaffoldingWithoutTarget ==
  LET given(P(_)) == Cardinality(Where(in0.resources, LAMBDA r : P([r EXCEPT !.type = normType(r.type)])))
      left(P(_)) == Cardinality(Where(m.resources, P))
      isPE(r) == r.type = Type.PrivateEndpoint
      isSqlPE(r) == isPE(r) /\ test(Pat.sql, toLowerCase(r.targetResourceType))
      isPDZ(r) == r.type = Type.PrivateDnsZone
      isSqlPDZ(r) == isPDZ(r) /\ r.zoneName = Zone.Sql
  IN  (Returned /\ pass = 1) =>
         /\ (opts.peSql /\ given(LAMBDA r : r.type = Type.SqlDb) = 0) =>
                left(isSqlPE) <= given(isSqlPE) /\ left(isSqlPDZ) <= given(isSqlPDZ)
         /\ ~needsPDZ(flagsOf(opts)) =>
                /\ left(isPE) <= given(isPE) /\ left(isPDZ) <= given(isPDZ)
                /\ \A i \in 1..Len(m.notes) :
                      m.notes[i].tag \notin
                        {"Private Endpoint uses require Private DNS zones and zone links to VNets.",
                         "Private Endpoint: Private DNS zones and VNet links are required (ja)"}

(* C13  If the model normalizeModel returns holds an AppGateway, it holds   *)
(* exactly one PublicIP for the App Gateway, of SKU Standard and static    *)
(* allocation, and a PublicIP for the App Gateway that the input held (the *)
(* template's pip-agw) is in the output under its sanitized id, still a    *)
(* PublicIP.  Stated as the claim states it; the code violates it.         *)
C13_OnePublicIpForAppGateway ==
  LET forAgw(r) == /\ r.type = Type.PublicIP
                   /\ \/ isAgwPublicIP(r)
                      \/ r.label = Lbl.PipAgw
                      \/ idSafe(r.id) = idSafe(Id.pip_agw)
  IN  (Returned /\ has(m.resources, Type.AppGateway)) =>
         /\ Cardinality(Where(m.resources, forAgw)) = 1
         /\ \A i \in Where(m.resources, forAgw) :
               m.resources[i].sku = "Standard" /\ m.resources[i].allocation = "Static"
         /\ \A i \in Where(in0.resources, forAgw) :
               \E j \in Where(m.resources, forAgw) : m.resources[j].id = idSafe(in0.resources[i].id)

(* C14  If VPN, Firewall or Bastion is requested and no input resource has *)
(* the canonical type VpnGateway, AzureFirewall or Bastion respectively,   *)
(* the model returned holds no resource of that type and its notes hold    *)
(* the warn: entry that says it is missing.  Stated as the claim states    *)
(* it; the code violates it.                                               *)
C14_HeadlineResourcesNotCreated ==
  LET absent(t) == \A i \in 1..Len(in0.resources) : normType(in0.resources[i].type) # t
      warned(tag) == \E i \in 1..Len(m.notes) : m.notes[i].pfx = "warn: " /\ m.notes[i].tag = tag
      kept(flag, t, tag) == (flag /\ absent(t)) => (~has(m.resources, t) /\ warned(tag))
  IN  (Returned /\ pass = 1) =>
         /\ kept(opts.enforceVpn, Type.VpnGateway,
                 "VPN requested but VpnGateway missing (auto-added)")
         /\ kept(opts.enforceFirewall, Type.AzureFirewall,
                 "Firewall requested but AzureFirewall missing (consider adding PIP and UDR)")
         /\ kept(opts.enforceBastion, Type.Bastion,
                 "Bastion requested but resource missing")

\* C15: in the returned model every edge that leaves a PrivateEndpoint ends
\* at a resource whose canonical type is the one the endpoint declares in
\* targetResourceType, which is SqlDb, Storage or KeyVault; an endpoint that
\* declares another type has no outgoing edge.
C15_PrivateEndpointEdgeTargets ==
  Returned =>
    \A i \in Where(m.resources, LAMBDA r : r.type = Type.PrivateEndpoint) :
      \A k \in 1..Len(m.edges) :
        m.edges[k].from = m.resources[i].id =>
          /\ normType(m.resources[i].targetResourceType)
                \in {Type.SqlDb, Type.Storage, Type.KeyVault}
          /\ \E j \in 1..Len(m.resources) :
                /\ m.resources[j].id = m.edges[k].to
                /\ m.resources[j].type = normType(m.resources[i].targetResourceType)

\* a returned model with a SqlDb first in the list, an endpoint declared
\* for Storage wired to the Storage resource, and an endpoint declared for
\* AppService left without an edge
C15_Witness ==
  /\ Returned
  /\ m.resources # <<>> /\ m.resources[1].type = Type.SqlDb
  /\ \E i \in 1..Len(m.resources) :
        /\ m.resources[i].type = Type.PrivateEndpoint
        /\ m.resources[i].targetResourceType = Type.Storage
        /\ \E k \in 1..Len(m.edges) :
              /\ m.edges[k].from = m.resources[i].id
              /\ m.edges[k].to = idOf(m.resources, Type.Storage)
  /\ \E i \in 1..Len(m.resources) :
        /\ m.resources[i].type = Type.PrivateEndpoint
        /\ m.resources[i].targetResourceType = Type.AppService
        /\ \A k \in 1..Len(m.edges) : m.edges[k].from # m.resources[i].id

\* C16: every PrivateEndpoint that is in the returned model (one that was
\* not dropped) has a targetResourceId that is the id of a resource of the
\* declared target type, has a wiring edge, and each of its edges points to
\* exactly that resource.
\* Stated as the claim states it; the code violates it.
C16_TargetIdResolvesOrDropped ==
  Returned =>
    \A i \in Where(m.resources, LAMBDA r : r.type = Type.PrivateEndpoint) :
      /\ \E j \in 1..Len(m.resources) :
            /\ m.resources[j].id = m.resources[i].targetResourceId
            /\ m.resources[j].type = normType(m.resources[i].targetResourceType)
      /\ \E k \in 1..Len(m.edges) : m.edges[k].from = m.resources[i].id
      /\ \A k \in 1..Len(m.edges) :
            m.edges[k].from = m.resources[i].id =>
              m.edges[k].to = m.resources[i].targetResourceId

\* C17: when arch_from_prompt_via_docs falls back, the model it renders is
\* the template model after normalizeModel with the options taken from the
\* parsed flags, which is what design_azure_architecture renders for the
\* same prompt.
\* Stated as the claim states it; the code violates it.
C17_FallbackIsNormalized ==
  (pc = "rendered" /\ tool.out = "fallback") =>
    m = normalizeModel(templateWebPaaS(tool.flags), optionsOf(tool.flags)).m

\* C18: once the views are built, and in the model returned, hubs is not
\* empty and holds the hub-kind VNets of vnets in order, spokes holds the
\* spoke-kind VNets of vnets in order, and hub is the first element of hubs,
\* with a sanitized id; for an input without any hub that hub is the default
\* one (id 'hub', CIDR 10.0.0.0/16, made without subnets).
\* Stated as the claim states it; the code violates it.
C18_ViewsAgree ==
  (pc \in {"resources", "done"} /\ pass = 1) =>
    /\ m.hubs # <<>>
    /\ m.hubs = SelectRefs(m.heap, m.vnets, "hub")
    /\ m.spokes = SelectRefs(m.heap, m.vnets, "spoke")
    /\ m.hub = m.hubs[1]
    /\ m.heap[m.hub].id = idSafe(m.heap[m.hub].id)
    /\ (in0.hub = 0 /\ SelectRefs(in0.heap, allVnetsOf(in0), "hub") = <<>>) =>
          /\ m.heap[m.hub].id = Id.hub
          /\ m.heap[m.hub].cidr = Cidr.HubDefault
          /\ pc = "resources" => m.heap[m.hub].subnets = <<>>

\* C19: the step of normalizeModel that normalizes the resources leaves the
\* type of every resource that carries a canonical kind as it is: normType
\* maps the kind to itself, and a resource of that kind is in the list the
\* step leaves.
\* Stated as the claim states it; the code violates it.
C19_CanonicalTypeKept ==
  [][(pc = "resources" /\ pc' = "ensure") =>
       \A i \in Where(m.resources,
                       LAMBDA r : r.type \in {Type[k] : k \in DOMAIN Type \ {"CosmosDb"}}) :
         /\ normType(m.resources[i].type) = m.resources[i].type
         /\ \E j \in 1..Len(m'.resources) : m'.resources[j].type = m.resources[i].type]_vars

\* C20: the step that deduplicates the resources leaves, in input order,
\* exactly the first resource of every (canonical type, label) pair, so two
\* resources of one type with different labels both stay; and the wiring
\* step makes the l3 edges that end at an Application Gateway end at the
\* first one of the list.
C20_DedupeOnTypeAndLabel ==
  [][((pc = "resources" /\ pc' = "ensure") =>
        (\E r \in {normalizeResources(m.resources, auto, <<>>).resources} :
         \E F \in {{i \in 1..Len(r) :
                      \A j \in 1..(i - 1) : r[j].type # r[i].type \/ r[j].label # r[i].label}} :
           /\ Len(m'.resources) = Cardinality(F)
           /\ \A i \in F : m'.resources[Cardinality({j \in F : j <= i})] = r[i]))
     /\
     ((pc = "wire" /\ pc' = "enforce") =>
        (\A k \in 1..Len(m'.edges) :
           \A i \in Where(m'.resources, LAMBDA x : x.type = Type.AppGateway) :
             (m'.edges[k].kind = "l3" /\ m'.edges[k].to = m'.resources[i].id) =>
               \A j \in Where(m'.resources, LAMBDA x : x.type = Type.AppGateway) : i <= j))]_vars

\* a returned model made from three Application Gateways, two of them with
\* one label: the first and the differently labelled one are kept, and the
\* firewall's l3 edge ends at the first
C20_Witness ==
  /\ Returned
  /\ Cardinality(Where(in0.resources, LAMBDA x : x.type = Type.AppGateway)) = 3
  /\ Len(m.resources) >= 2
  /\ m.resources[1].type = Type.AppGateway /\ m.resources[2].type = Type.AppGateway
  /\ m.resources[1].label # m.resources[2].label
  /\ Cardinality(Where(m.resources, LAMBDA x : x.type = Type.AppGateway)) = 2
  /\ \E k \in 1..Len(m.edges) :
        /\ m.edges[k].kind = "l3"
        /\ m.edges[k].from = idOf(m.resources, Type.AzureFirewall)
        /\ m.edges[k].to = m.resources[1].id

\* C21: the notes of the input are a prefix, in order, of the notes of the
\* model returned, and every note after that prefix begins with 'fix: ' or
\* 'warn: ', on the disaster-recovery path as well.
\* Stated as the claim states it; the code violates it.
C21_NotesAppendOnlyAndPrefixed ==
  Returned =>
    /\ Len(m.notes) >= Len(in0.notes)
    /\ SubSeq(m.notes, 1, Len(in0.notes)) = in0.notes
    /\ \A i \in (Len(in0.notes) + 1)..Len(m.notes) : m.notes[i].pfx \in {"fix: ", "warn: "}

\* C22: of the calls one sanitizer has served, each returned a non-empty id
\* over letters, digits and underscore; an argument that is such an id (and
\* not the single underscore) came back unchanged, and the id returned is
\* returned again for itself; the calls whose argument is missing, blank or
\* reduces to the single underscore returned n0, n1, ... in call order,
\* which are pairwise distinct.
C22_SanitizedIds ==
  pc = "ids" =>
    \E gen \in {{i \in 1..Len(res) :
                    \/ trim(res[i].arg) = <<>>
                    \/ Len(trim(res[i].arg)) = 1 /\ trim(res[i].arg)[1] \notin WordChars \ {"_"}}} :
      /\ \A i \in 1..Len(res) :
            /\ res[i].id # <<>>
            /\ \A k \in 1..Len(res[i].id) : res[i].id[k] \in WordChars
            /\ ensureId(res[i].id, auto).id = res[i].id
            /\ (/\ res[i].arg # <<>> /\ res[i].arg # <<"_">>
                /\ \A k \in 1..Len(res[i].arg) : res[i].arg[k] \in WordChars)
                 => res[i].id = res[i].arg
      /\ \A i \in gen : res[i].id = <<"n">> \o decimal(Cardinality({j \in gen : j < i}))
      /\ \A i, j \in gen : i # j => res[i].id # res[j].id

\* three calls: a missing id, an id with a hyphen, and an id that reduces to
\* the underscore, the first and the last answered with n0 and n1
C22_Witness ==
  /\ pc = "ids" /\ Len(res) = 3
  /\ res[1].arg = <<>> /\ res[1].id = <<"n","0">>
  /\ res[2].arg = GivenId.a_dash_b /\ res[2].id = GivenId.a_under_b
  /\ res[3].arg = <<"-">> /\ res[3].id = <<"n","1">>

\* C23: the aggregation step keeps the number of peerings, and every
\* peering endpoint, every VNet link of a Private DNS zone and every
\* resource subnetId that names a VNet or subnet of the input names, after
\* the step, the id that VNet or subnet has then; a reference that names
\* nothing is kept, sanitized.
\* Stated as the claim states it; the code violates it.
C23_ReferencesFollowIds ==
  [][(pc = "aggregate" /\ pc' = "resources") =>
       (LET refs == SeqToSet(allVnetsOf(m)) \cup (IF m.hub # 0 THEN {m.hub} ELSE {})
            vnetOk(x, y) ==
              x # <<>> =>
                IF \E r \in refs : m.heap[r].id = x
                  THEN \A r \in refs : m.heap[r].id = x => y = m'.heap[r].id
                  ELSE y = idSafe(x)
            subnetOk(x, y) ==
              x # <<>> =>
                IF \E r \in refs : \E k \in 1..Len(m.heap[r].subnets) : m.heap[r].subnets[k].id = x
                  THEN \A r \in refs : \A k \in 1..Len(m.heap[r].subnets) :
                         m.heap[r].subnets[k].id = x => y = m'.heap[r].subnets[k].id
                  ELSE y = idSafe(x)
        IN  /\ Len(m'.peerings) = Len(m.peerings)
            /\ Len(m'.resources) = Len(m.resources)
            /\ \A i \in 1..Len(m.peerings) :
                  /\ vnetOk(m.peerings[i].fromVnetId, m'.peerings[i].fromVnetId)
                  /\ vnetOk(m.peerings[i].toVnetId, m'.peerings[i].toVnetId)
            /\ \A i \in 1..Len(m.resources) :
                  /\ subnetOk(m.resources[i].subnetId, m'.resources[i].subnetId)
                  /\ normType(m.resources[i].type) = Type.PrivateDnsZone =>
                        /\ Len(m'.resources[i].links) = Len(m.resources[i].links)
                        /\ \A k \in 1..Len(m.resources[i].links) :
                              vnetOk(m.resources[i].links[k], m'.resources[i].links[k]))]_vars

\* C24: in a model wired with a VpnGateway there is the l3 edge
\* onprem -> gateway; with an AzureFirewall there are the l3 edges
\* gateway -> firewall and firewall -> entry point and no edge
\* gateway -> entry point; without one there is the l3 edge
\* gateway -> entry point.  The entry point is the first AppGateway, or the
\* first AppService when there is none.
C24_VpnWiring ==
  (pc = "enforce" /\ has(m.resources, Type.VpnGateway)) =>
    LET first(t) == IF Where(m.resources, LAMBDA r : r.type = t) = {} THEN <<>>
                    ELSE m.resources[CHOOSE i \in Where(m.resources, LAMBDA r : r.type = t) :
                                       \A j \in Where(m.resources, LAMBDA r : r.type = t) : i <= j].id
        vpn == first(Type.VpnGateway)
        afw == first(Type.AzureFirewall)
        entry == IF first(Type.AppGateway) # <<>> THEN first(Type.AppGateway)
                 ELSE first(Type.AppService)
        edge(f, t, k) == \E i \in 1..Len(m.edges) : m.edges[i] = Edge(f, t, k)
    IN  /\ edge(Id.onprem, vpn, "l3")
        /\ afw # <<>> => edge(vpn, afw, "l3")
        /\ (afw # <<>> /\ entry # <<>>) =>
              /\ edge(afw, entry, "l3")
              /\ \A i \in 1..Len(m.edges) : ~(m.edges[i].from = vpn /\ m.edges[i].to = entry)
        /\ (afw = <<>> /\ entry # <<>>) => edge(vpn, entry, "l3")

\* a wired model with a VpnGateway, an AzureFirewall, an AppGateway and an
\* AppService: the firewall's l3 edge ends at the AppGateway
C24_Witness ==
  /\ pc = "enforce"
  /\ has(m.resources, Type.VpnGateway) /\ has(m.resources, Type.AzureFirewall)
  /\ has(m.resources, Type.AppGateway) /\ has(m.resources, Type.AppService)
  /\ \E i \in 1..Len(m.edges) :
        m.edges[i] = Edge(idOf(m.resources, Type.AzureFirewall), idOf(m.resources, Type.AppGateway), "l3")
  /\ \E i \in 1..Len(m.edges) :
        m.edges[i] = Edge(idOf(m.resources, Type.VpnGateway), idOf(m.resources, Type.AzureFirewall), "l3")

\* C25: a model that has been wired never holds two edges with the same
\* from and to, the Traffic Manager edges included, and after the wiring
\* step each edge has the kind of the first call of add that named its pair.
C25_OneEdgePerPair ==
  [][((pc' \in {"enforce", "dr_enforce", "done"}) =>
        (\A i, j \in 1..Len(m'.edges) :
           (m'.edges[i].from = m'.edges[j].from /\ m'.edges[i].to = m'.edges[j].to) => i = j))
     /\
     ((pc \in {"wire", "dr_wire"} /\ pc' \in {"enforce", "dr_enforce"}) =>
        (\E calls \in {wiringCalls(m.resources)
                        \o (IF pc = "dr_wire" /\ opts.trafficManager
                              THEN << <<Id.tm, agwIn(m.resources, FALSE), "l7">>,
                                      <<Id.tm, agwIn(m.resources, TRUE), "l7">> >>
                              ELSE <<>>)} :
           /\ \A c \in 1..Len(calls) :
                 (calls[c][1] # <<>> /\ calls[c][2] # <<>>) =>
                   \E i \in 1..Len(m'.edges) :
                     m'.edges[i].from = calls[c][1] /\ m'.edges[i].to = calls[c][2]
           /\ \A i \in 1..Len(m'.edges) :
                 \E c \in 1..Len(calls) :
                   /\ calls[c] = <<m'.edges[i].from, m'.edges[i].to, m'.edges[i].kind>>
                   /\ \A d \in 1..(c - 1) :
                         ~(calls[d][1] = calls[c][1] /\ calls[d][2] = calls[c][2])))]_vars

\* a returned model with a Traffic Manager 'tm' and an Application Gateway:
\* auto-wiring and the Traffic Manager wiring both name the pair, and one
\* l7 edge is there
C25_Witness ==
  /\ Returned /\ opts.trafficManager
  /\ idOf(m.resources, Type.TrafficManager) = Id.tm
  /\ agwIn(m.resources, FALSE) # <<>>
  /\ Cardinality({i \in 1..Len(m.edges) :
                    m.edges[i].from = Id.tm /\ m.edges[i].to = agwIn(m.resources, FALSE)}) = 1

\* C26: once the clones for a DR region are made, and in the model
\* returned, the VNets (the hub and the spokes) hold a clone of the hub and,
\* when the input has a spoke, a clone of the first spoke; the id of each is
\* the original's with the suffix and is the id of no original VNet, and the
\* subnets cloned with it carry the suffix; when the clones are made every
\* resource of a cloned type has its clone, with the suffixed id.
\* Stated as the claim states it; the code violates it.
C26_DrClonesPresent ==
  (pc \in {"dr_wire", "done"} /\ opts.drRegion # "") =>
    LET vnets == {m.hub} \cup SeqToSet(m.spokes)
        originals == {1} \cup {1 + i : i \in 1..Len(in0.spokes)}
        cloneOf(o) == {r \in vnets \ originals : m.heap[r].id = m.heap[o].id \o SuffixWest}
    IN  /\ \A o \in {1} \cup (IF in0.spokes # <<>> THEN {in0.spokes[1]} ELSE {}) :
              /\ cloneOf(o) # {}
              /\ \A r \in cloneOf(o) :
                    /\ \A q \in originals : m.heap[q].id # m.heap[r].id
                    /\ Len(m.heap[r].subnets) >= Len(in0.heap[o].subnets)
                    /\ \A k \in 1..Len(in0.heap[o].subnets) :
                          endsWith(m.heap[r].subnets[k].id, SuffixWest)
        /\ pc = "dr_wire" =>
            \A i \in Where(m.resources, LAMBDA r : r.type \in typesToClone
                                                 /\ ~endsWith(r.id, SuffixWest)) :
              \E j \in 1..Len(m.resources) :
                 /\ m.resources[j].id = m.resources[i].id \o SuffixWest
                 /\ m.resources[j].type = m.resources[i].type

\* C27: when the first spoke, a /16 VNet whose subnets lie inside its CIDR,
\* has been cloned for the DR region, the clone's second octet is the
\* original's plus the increment of the call (2), capped at 254, the clone's
\* CIDR is not the original's, and every subnet of the clone lies inside the
\* clone's CIDR.
\* Stated as the claim states it; the code violates it.
C27_ClonedSubnetsNest ==
  (pc = "dr_wire" /\ opts.drRegion # "" /\ in0.spokes # <<>>) =>
    LET o == m.heap[m.spokes[1]]
        c == m.heap[m.spokes[Len(m.spokes)]]
        inside(sn, v) == Len(sn.cidr) = 5 /\ sn.cidr[5] >= 16
                         /\ sn.cidr[1] = v.cidr[1] /\ sn.cidr[2] = v.cidr[2]
    IN  (/\ Len(o.cidr) = 5 /\ o.cidr[5] = 16
         /\ \A k \in 1..Len(o.subnets) : inside(o.subnets[k], o))
        => /\ c.cidr = <<o.cidr[1], Min(254, o.cidr[2] + 2), 0, 0, 16>>
           /\ c.cidr # o.cidr
           /\ Len(c.subnets) = Len(o.subnets)
           /\ \A k \in 1..Len(c.subnets) : inside(c.subnets[k], c)

\* C28: when the clones for a DR region are made, the clone of a
\* PrivateEndpoint whose target is a resource of a cloned type has the id
\* of the target's clone as targetResourceId, wherever the endpoint stands
\* in the list relative to its target.
\* Stated as the claim states it; the code violates it.
C28_ClonedEndpointRetargeted ==
  (pc = "dr_wire" /\ opts.drRegion # "") =>
    \A i \in Where(m.resources, LAMBDA r : r.type = Type.PrivateEndpoint
                                           /\ ~endsWith(r.id, SuffixWest)) :
      \A t \in Where(m.resources, LAMBDA r : r.id = m.resources[i].targetResourceId
                                             /\ r.type \in typesToClone) :
        \A j \in Where(m.resources, LAMBDA r : r.id = m.resources[i].id \o SuffixWest) :
          m.resources[j].targetResourceId = m.resources[t].id \o SuffixWest

\* C29: a model returned with the Traffic Manager requested holds exactly
\* one TrafficManager, with an l7 edge from its id to the primary entry
\* point and, when a DR region was cloned, an l7 edge from its id to the
\* cloned entry point; the entry point of a region is its first AppGateway,
\* or its first AppService when it has none.
\* Stated as the claim states it; the code violates it.
C29_TrafficManagerWired ==
  (Returned /\ opts.trafficManager) =>
    LET first(t, west) ==
          IF Where(m.resources, LAMBDA r : r.type = t /\ (endsWith(r.id, SuffixWest) <=> west)) = {}
            THEN <<>>
            ELSE m.resources[CHOOSE i \in Where(m.resources,
                                LAMBDA r : r.type = t /\ (endsWith(r.id, SuffixWest) <=> west)) :
                               \A j \in Where(m.resources,
                                LAMBDA r : r.type = t /\ (endsWith(r.id, SuffixWest) <=> west)) :
                                 i <= j].id
        entry(west) == IF first(Type.AppGateway, west) # <<>> THEN first(Type.AppGateway, west)
                       ELSE first(Type.AppService, west)
        edge(f, t, k) == \E i \in 1..Len(m.edges) : m.edges[i] = Edge(f, t, k)
    IN  /\ Cardinality(Where(m.resources, LAMBDA r : r.type = Type.TrafficManager)) = 1
        /\ \A i \in Where(m.resources, LAMBDA r : r.type = Type.TrafficManager) :
              /\ entry(FALSE) # <<>> => edge(m.resources[i].id, entry(FALSE), "l7")
              /\ (opts.drRegion # "" /\ entry(TRUE) # <<>>) =>
                    edge(m.resources[i].id, entry(TRUE), "l7")

\* C30: in the model returned, every subnet nsgId and routeTableId, every
\* resource pipId and every PrivateEndpoint targetResourceId that names the
\* id of a resource of the input names the id of a resource of the model
\* returned.
\* Stated as the claim states it; the code violates it.
C30_ResourceReferencesResolve ==
  Returned =>
    LET given == {in0.resources[i].id : i \in 1..Len(in0.resources)} \ {<<>>}
        resolves(x) == x \in given => \E j \in 1..Len(m.resources) : m.resources[j].id = x
    IN  /\ \A r \in 1..Len(in0.heap) : \A k \in 1..Len(in0.heap[r].subnets) :
              /\ in0.heap[r].subnets[k].nsgId \in given =>
                    resolves(m.heap[r].subnets[k].nsgId)
              /\ in0.heap[r].subnets[k].routeTableId \in given =>
                    resolves(m.heap[r].subnets[k].routeTableId)
        /\ \A j \in 1..Len(m.resources) :
              /\ resolves(m.resources[j].pipId)
              /\ m.resources[j].type = Type.PrivateEndpoint =>
                    resolves(m.resources[j].targetResourceId)

============================================================================
